---- MODULE Spec2Model ----
(***************************************************************************)
(* Model of fs/ext4/balloc.c (linux 4.9): the group locator, the per-group *)
(* metadata layout calculator, the block-bitmap cache and validator, and   *)
(* the free-cluster accountant.                                            *)
(*                                                                         *)
(* The filesystem is scaled down: a bitmap block holds s_blocksize * 8     *)
(* bits with s_blocksize of one or two bytes, so that a group has at most  *)
(* sixteen clusters.  All the arithmetic of the source is kept.            *)
(***************************************************************************)
EXTENDS Integers, Naturals, Sequences, FiniteSets, TLC

VARIABLES
    sb,          \* struct super_block / ext4_sb_info / ext4_super_block: geometry and features
    gdp,         \* group descriptors: [group -> struct ext4_group_desc]
    grp,         \* struct ext4_group_info: [group -> [bb_free, bbitmap_corrupt, ibitmap_corrupt]]
    bh,          \* the block bitmap's buffer_head of each group
    group_lock,  \* ext4_lock_group: [group -> holder thread or NoThread]
    disk,        \* on-disk content of each group's block bitmap block
    io,          \* [group -> TRUE while a read submitted by submit_bh is in flight]
    fcc,         \* sbi->s_freeclusters_counter (percpu_counter)
    dcc,         \* sbi->s_dirtyclusters_counter (percpu_counter)
    fic,         \* sbi->s_freeinodes_counter (percpu_counter)
    acct,        \* s_resv_clusters, r_blocks_count, s_resgid, s_journal, s_mb_free_pending,
                 \* EXT4_ERROR_FS of s_mount_state
    th,          \* each thread: its position in the handler it runs, and its locals
    hist         \* history of the run: what each group has had done to it

geomVars   == <<sb, gdp>>
bitmapVars == <<grp, bh, group_lock, disk, io>>
cntVars    == <<fcc, dcc, fic>>
vars       == <<sb, gdp, grp, bh, group_lock, disk, io, fcc, dcc, fic, acct, th, hist>>

(***************************************************************************)
(* Arithmetic helpers                                                      *)
(***************************************************************************)
Pow2(n) == 2 ^ n

RECURSIVE SumOver(_, _)
SumOver(f, S) ==
    IF S = {} THEN 0
    ELSE LET x == CHOOSE y \in S : TRUE IN f[x] + SumOver(f, S \ {x})

\* f[0] + ... + f[n - 1]
RECURSIVE SumUpTo(_, _)
SumUpTo(f, n) == IF n = 0 THEN 0 ELSE f[n - 1] + SumUpTo(f, n - 1)

(***************************************************************************)
(* ext4.h accessors used by balloc.c                                       *)
(***************************************************************************)
EXT4_BLOCKS_PER_GROUP   == sb.s_blocks_per_group
EXT4_CLUSTERS_PER_GROUP == sb.s_clusters_per_group
EXT4_DESC_PER_BLOCK     == sb.s_desc_per_block
s_cluster_ratio         == Pow2(sb.s_cluster_bits)

\* EXT4_B2C: block number to cluster number
EXT4_B2C(blks) == blks \div Pow2(sb.s_cluster_bits)
\* EXT4_NUM_B2C: number of clusters needed to hold a number of blocks
EXT4_NUM_B2C(blks) == (blks + s_cluster_ratio - 1) \div Pow2(sb.s_cluster_bits)

ext4_get_groups_count == sb.s_groups_count
ext4_blocks_count     == sb.s_blocks_count

ext4_group_first_block_no(group_no) ==
    group_no * EXT4_BLOCKS_PER_GROUP + sb.s_first_data_block

ext4_block_bitmap(d) == d.bg_block_bitmap
ext4_inode_bitmap(d) == d.bg_inode_bitmap
ext4_inode_table(d)  == d.bg_inode_table

(***************************************************************************)
(* Group locator                                                           *)
(***************************************************************************)
\* do_div(blocknr, EXT4_BLOCKS_PER_GROUP): quotient in blocknr, remainder returned
ext4_get_group_no_and_offset(blocknr) ==
    LET rel == blocknr - sb.s_first_data_block
    IN  [group  |-> rel \div EXT4_BLOCKS_PER_GROUP,
         offset |-> (rel % EXT4_BLOCKS_PER_GROUP) \div Pow2(sb.s_cluster_bits)]

\* EXT4_BLOCK_SIZE_BITS + EXT4_CLUSTER_BITS + 3, as a shift count
StdGroupShift == sb.s_blocksize_bits + sb.s_cluster_bits + 3

\* The group number by the shift alone, whatever the group size
ext4_get_group_number_shift(block) ==
    (block - sb.s_first_data_block) \div Pow2(StdGroupShift)

ext4_get_group_number(block) ==
    IF sb.opt_std_group_size
    THEN (block - sb.s_first_data_block) \div Pow2(StdGroupShift)
    ELSE ext4_get_group_no_and_offset(block).group

ext4_block_in_group(block, block_group) ==
    ext4_get_group_number(block) = block_group

(***************************************************************************)
(* Metadata layout calculator                                              *)
(***************************************************************************)
RECURSIVE test_root(_, _)
test_root(a, b) ==
    IF a < b THEN FALSE
    ELSE IF a = b THEN TRUE
    ELSE IF (a % b) # 0 THEN FALSE
    ELSE test_root(a \div b, b)

\* The sparse rule without the powers of 7
ext4_bg_has_super_no7(group) ==
    IF group = 0 THEN 1
    ELSE IF sb.feature_sparse_super2
    THEN (IF group = sb.s_backup_bgs[1] \/ group = sb.s_backup_bgs[2] THEN 1 ELSE 0)
    ELSE IF group <= 1 \/ ~sb.feature_sparse_super THEN 1
    ELSE IF group % 2 = 0 THEN 0
    ELSE IF test_root(group, 3) \/ test_root(group, 5) THEN 1
    ELSE 0

ext4_bg_has_super(group) ==
    IF group = 0 THEN 1
    ELSE IF sb.feature_sparse_super2
    THEN (IF group = sb.s_backup_bgs[1] \/ group = sb.s_backup_bgs[2] THEN 1 ELSE 0)
    ELSE IF group <= 1 \/ ~sb.feature_sparse_super THEN 1
    ELSE IF group % 2 = 0 THEN 0
    ELSE IF test_root(group, 3) \/ test_root(group, 5) \/ test_root(group, 7) THEN 1
    ELSE 0

\* The descriptor copies of a meta-group without the one in its last group
ext4_bg_num_gdb_meta_nolast(group) ==
    LET metagroup == group \div EXT4_DESC_PER_BLOCK
        first     == metagroup * EXT4_DESC_PER_BLOCK
    IN  IF group = first \/ group = first + 1 THEN 1 ELSE 0

ext4_bg_num_gdb_meta(group) ==
    LET metagroup == group \div EXT4_DESC_PER_BLOCK
        first     == metagroup * EXT4_DESC_PER_BLOCK
        last      == first + EXT4_DESC_PER_BLOCK - 1
    IN  IF group = first \/ group = first + 1 \/ group = last THEN 1 ELSE 0

\* The old layout with the first-meta-bg threshold, meta_bg or not
ext4_bg_num_gdb_nometa_threshold(group) ==
    IF ext4_bg_has_super(group) = 0 THEN 0
    ELSE sb.s_first_meta_bg

ext4_bg_num_gdb_nometa(group) ==
    IF ext4_bg_has_super(group) = 0 THEN 0
    ELSE IF sb.feature_meta_bg THEN sb.s_first_meta_bg
    ELSE sb.s_gdb_count

ext4_bg_num_gdb(group) ==
    LET first_meta_bg == sb.s_first_meta_bg
        metagroup     == group \div EXT4_DESC_PER_BLOCK
    IN  IF ~sb.feature_meta_bg \/ metagroup < first_meta_bg
        THEN ext4_bg_num_gdb_nometa(group)
        ELSE ext4_bg_num_gdb_meta(group)

\* The base metadata without the reserved descriptor blocks
ext4_num_base_meta_clusters_noresv(block_group) ==
    LET num0 == ext4_bg_has_super(block_group)
        num  == IF num0 # 0 \/ (sb.feature_meta_bg
                                  /\ block_group >= sb.s_first_meta_bg * sb.s_desc_per_block)
                THEN num0 + ext4_bg_num_gdb(block_group)
                ELSE num0
    IN  EXT4_NUM_B2C(num)

ext4_num_base_meta_clusters(block_group) ==
    LET num0 == ext4_bg_has_super(block_group)
        num  == IF ~sb.feature_meta_bg
                   \/ block_group < sb.s_first_meta_bg * sb.s_desc_per_block
                THEN (IF num0 # 0
                      THEN num0 + ext4_bg_num_gdb(block_group) + sb.s_reserved_gdt_blocks
                      ELSE num0)
                ELSE num0 + ext4_bg_num_gdb(block_group)
    IN  EXT4_NUM_B2C(num)

\* One bitmap block of ext4_num_overhead_clusters (lines 118-127 and 129-138):
\* the cluster to track explicitly (-1 when none) and the new length of the run.
OverheadBitmapBlock(blk, block_group, num_clusters) ==
    LET start == ext4_group_first_block_no(block_group)
        c     == EXT4_B2C(blk - start)
    IN  IF ~ext4_block_in_group(blk, block_group)
        THEN [cluster |-> -1, num |-> num_clusters]
        ELSE IF c < num_clusters THEN [cluster |-> -1, num |-> num_clusters]
        ELSE IF c = num_clusters THEN [cluster |-> -1, num |-> num_clusters + 1]
        ELSE [cluster |-> c, num |-> num_clusters]

\* The inode table loop of ext4_num_overhead_clusters (lines 140-154), from
\* iteration i on, with the loop's state (num_clusters, itbl_cluster).
RECURSIVE OverheadItblLoop(_, _, _, _, _, _)
OverheadItblLoop(i, block_group, d, num_clusters, itbl_cluster, bic) ==
    IF i >= sb.s_itb_per_group THEN num_clusters
    ELSE
      LET start == ext4_group_first_block_no(block_group)
          blk   == ext4_inode_table(d) + i
          c     == EXT4_B2C(blk - start)
      IN  IF ~ext4_block_in_group(blk, block_group)
          THEN OverheadItblLoop(i + 1, block_group, d, num_clusters, itbl_cluster, bic)
          ELSE IF c < num_clusters \/ c = bic.inode_cluster
                  \/ c = bic.block_cluster \/ c = itbl_cluster
          THEN OverheadItblLoop(i + 1, block_group, d, num_clusters, itbl_cluster, bic)
          ELSE IF c = num_clusters
          THEN OverheadItblLoop(i + 1, block_group, d, num_clusters + 1, itbl_cluster, bic)
          ELSE OverheadItblLoop(i + 1, block_group, d, num_clusters + 1, c, bic)

ext4_num_overhead_clusters(block_group, d) ==
    LET base == ext4_num_base_meta_clusters(block_group)
        b    == OverheadBitmapBlock(ext4_block_bitmap(d), block_group, base)
        n    == OverheadBitmapBlock(ext4_inode_bitmap(d), block_group, b.num)
        bic  == [block_cluster |-> b.cluster, inode_cluster |-> n.cluster]
        run  == OverheadItblLoop(0, block_group, d, n.num, -1, bic)
    IN  run + (IF b.cluster # -1 THEN 1 ELSE 0) + (IF n.cluster # -1 THEN 1 ELSE 0)

num_clusters_in_group(block_group) ==
    LET blocks == IF block_group = ext4_get_groups_count - 1
                  THEN ext4_blocks_count - ext4_group_first_block_no(block_group)
                  ELSE EXT4_BLOCKS_PER_GROUP
    IN  EXT4_NUM_B2C(blocks)

\* A 64-bit quantity (an s64, or an unsigned int widened to one) is the
\* record [hi, lo] that stands for hi * 2^32 + lo, with lo in
\* -2^31 .. 2^31 - 1: 4294967295 is [hi |-> 1, lo |-> -1], and
\* -4294967295 is [hi |-> -1, lo |-> 1].  Every value has one record.
S64(n) == [hi |-> 0, lo |-> n]

\* a + b, the carry of the low parts taken into hi
s64_add(a, b) ==
    IF a.lo > 0 /\ b.lo > 0 /\ a.lo > 2147483647 - b.lo
    THEN [hi |-> a.hi + b.hi + 1,
          lo |-> (a.lo - 2147483647 - 1) + (b.lo - 2147483647 - 1)]
    ELSE IF a.lo < 0 /\ b.lo < 0 /\ a.lo < (-2147483647 - 1) - b.lo
    THEN [hi |-> a.hi + b.hi - 1,
          lo |-> (a.lo + 2147483647 + 1) + (b.lo + 2147483647 + 1)]
    ELSE [hi |-> a.hi + b.hi, lo |-> a.lo + b.lo]

\* -a
s64_neg(a) ==
    IF a.lo = -2147483647 - 1
    THEN [hi |-> 1 - a.hi, lo |-> a.lo]
    ELSE [hi |-> -a.hi, lo |-> -a.lo]

\* a - b
s64_sub(a, b) == s64_add(a, s64_neg(b))

\* a < b and a <= b
s64_lt(a, b) == a.hi < b.hi \/ (a.hi = b.hi /\ a.lo < b.lo)
s64_le(a, b) == ~s64_lt(b, a)

\* Subtraction of unsigned ints (32 bits): a negative difference wraps
\* modulo 2^32, 8 - 9 is 4294967295.
UnsignedSub(a, b) == IF a >= b THEN S64(a - b) ELSE [hi |-> 1, lo |-> a - b]

ext4_free_clusters_after_init(block_group, d) ==
    UnsignedSub(num_clusters_in_group(block_group),
                ext4_num_overhead_clusters(block_group, d))

(***************************************************************************)
(* Bitmaps and checksums.  A bitmap is the set of the bit numbers that are *)
(* set in it; a bitmap block has s_blocksize * 8 bits.                     *)
(***************************************************************************)
BitmapBits == sb.s_blocksize * 8

ext4_set_bit(nr, data)  == data \cup {nr}
ext4_test_bit(nr, data) == nr \in data

\* find_next_zero_bit(addr, size, offset): the first clear bit in [offset, size),
\* or size when there is none
ext4_find_next_zero_bit(data, size, offset) ==
    LET zeros == {i \in offset .. (size - 1) : i \notin data}
    IN  IF zeros = {} THEN size
        ELSE CHOOSE i \in zeros : \A j \in zeros : i <= j

\* ext4_mark_bitmap_end: sets the bits from start_bit up to end_bit
ext4_mark_bitmap_end(start_bit, end_bit, data) ==
    IF start_bit >= end_bit THEN data
    ELSE data \cup (start_bit .. (end_bit - 1))

ext4_has_metadata_csum   == sb.feature_metadata_csum
ext4_has_group_desc_csum == sb.feature_gdt_csum \/ sb.feature_metadata_csum

\* The checksum of a bitmap covers its first EXT4_CLUSTERS_PER_GROUP / 8 bytes:
\* it is modelled by the content of these bytes.
ext4_block_bitmap_csum(data) ==
    LET sz == EXT4_CLUSTERS_PER_GROUP \div 8
    IN  {i \in data : i < sz * 8}

ext4_block_bitmap_csum_verify(d, data) ==
    IF ~ext4_has_metadata_csum THEN TRUE
    ELSE d.bg_block_bitmap_csum = ext4_block_bitmap_csum(data)

ext4_block_bitmap_csum_set(d, data) ==
    IF ~ext4_has_metadata_csum THEN d
    ELSE [d EXCEPT !.bg_block_bitmap_csum = ext4_block_bitmap_csum(data)]

\* The checksum of a descriptor covers the group number and every field of
\* the descriptor but the checksum itself: it is modelled by these values.
ext4_group_desc_csum(block_group, d) ==
    <<block_group, d.bg_flags_block_uninit, d.bg_block_bitmap, d.bg_inode_bitmap,
      d.bg_inode_table, d.bg_free_blocks_count, d.bg_free_inodes_count,
      d.bg_block_bitmap_csum>>

ext4_group_desc_csum_verify(block_group, d) ==
    IF ~ext4_has_group_desc_csum THEN TRUE
    ELSE d.bg_checksum = ext4_group_desc_csum(block_group, d)

ext4_group_desc_csum_set(block_group, d) ==
    IF ~ext4_has_group_desc_csum THEN d
    ELSE [d EXCEPT !.bg_checksum = ext4_group_desc_csum(block_group, d)]

(***************************************************************************)
(* Synthesis of the bitmap of a never-written group                        *)
(***************************************************************************)
\* The bits of the block bitmap and the inode table blocks only
InitSetMetaBitsNoInodeBitmap(block_group, d, data) ==
    LET start   == ext4_group_first_block_no(block_group)
        flex_bg == sb.feature_flex_bg
        hit(b)  == ~flex_bg \/ ext4_block_in_group(b, block_group)
        itb     == {ext4_inode_table(d) + i : i \in 0 .. (sb.s_itb_per_group - 1)}
        blks    == {b \in {ext4_block_bitmap(d)} \cup itb : hit(b)}
    IN  data \cup {EXT4_B2C(b - start) : b \in blks}

\* lines 254-267: the bits of the block bitmap, the inode bitmap and the
\* inode table blocks
InitSetMetaBits(block_group, d, data) ==
    LET start   == ext4_group_first_block_no(block_group)
        flex_bg == sb.feature_flex_bg
        hit(b)  == ~flex_bg \/ ext4_block_in_group(b, block_group)
        itb     == {ext4_inode_table(d) + i : i \in 0 .. (sb.s_itb_per_group - 1)}
        blks    == {b \in {ext4_block_bitmap(d), ext4_inode_bitmap(d)} \cup itb : hit(b)}
    IN  data \cup {EXT4_B2C(b - start) : b \in blks}

\* The synthesis with a loop over the base metadata that runs to bit_max
\* inclusive
ext4_init_block_bitmap_inclusive(block_group, d, old_data) ==
    LET bit_max == ext4_num_base_meta_clusters(block_group)
        base    == 0 .. bit_max
        meta    == InitSetMetaBits(block_group, d, base)
        full    == ext4_mark_bitmap_end(num_clusters_in_group(block_group),
                                        sb.s_blocksize * 8, meta)
    IN  IF ~ext4_group_desc_csum_verify(block_group, d)
        THEN [err |-> "EFSBADCRC", data |-> old_data, desc |-> d]
        ELSE IF (bit_max \div 8) >= sb.s_blocksize
        THEN [err |-> "EFSCORRUPTED", data |-> {}, desc |-> d]
        ELSE [err |-> "OK", data |-> full,
              desc |-> ext4_group_desc_csum_set(block_group,
                           ext4_block_bitmap_csum_set(d, full))]

\* ext4_init_block_bitmap: the error it returns ("OK" for 0), the buffer's
\* data and the descriptor it leaves.  The group flags and the counters it
\* changes on a bad descriptor checksum are changed by the caller's steps.
ext4_init_block_bitmap(block_group, d, old_data) ==
    LET bit_max == ext4_num_base_meta_clusters(block_group)
        base    == 0 .. (bit_max - 1)
        meta    == InitSetMetaBits(block_group, d, base)
        full    == ext4_mark_bitmap_end(num_clusters_in_group(block_group),
                                        sb.s_blocksize * 8, meta)
    IN  IF ~ext4_group_desc_csum_verify(block_group, d)
        THEN [err |-> "EFSBADCRC", data |-> old_data, desc |-> d]
        ELSE IF (bit_max \div 8) >= sb.s_blocksize
        THEN [err |-> "EFSCORRUPTED", data |-> {}, desc |-> d]
        ELSE [err |-> "OK", data |-> full,
              desc |-> ext4_group_desc_csum_set(block_group,
                           ext4_block_bitmap_csum_set(d, full))]

(***************************************************************************)
(* Validation of a bitmap                                                  *)
(***************************************************************************)
\* Returns the block number found invalid, or 0 when the bitmap is valid.
ext4_valid_block_bitmap(d, block_group, data) ==
    LET group_first_block == ext4_group_first_block_no(block_group)
        boff == ext4_block_bitmap(d) - group_first_block
        ioff == ext4_inode_bitmap(d) - group_first_block
        toff == ext4_inode_table(d) - group_first_block
        tend == EXT4_B2C(toff + sb.s_itb_per_group)
        next_zero_bit == ext4_find_next_zero_bit(data, tend, EXT4_B2C(toff))
    IN  IF sb.feature_flex_bg THEN 0
        ELSE IF ~ext4_test_bit(EXT4_B2C(boff), data) THEN ext4_block_bitmap(d)
        ELSE IF ~ext4_test_bit(EXT4_B2C(ioff), data) THEN ext4_inode_bitmap(d)
        ELSE IF next_zero_bit < tend THEN ext4_inode_table(d)
        ELSE 0

\* The checks of ext4_validate_block_bitmap made under the group lock
\* (lines 437-458): the error they give, "OK" when the bitmap passes.
ValidateChecks(d, block_group, data) ==
    IF ~ext4_block_bitmap_csum_verify(d, data) THEN "EFSBADCRC"
    ELSE IF ext4_valid_block_bitmap(d, block_group, data) # 0 THEN "EFSCORRUPTED"
    ELSE "OK"

(***************************************************************************)
(* Threads, and the sharded (per-cpu) counters.  Each thread runs on its   *)
(* own cpu.  A counter is a global count and one local delta per cpu; a    *)
(* local delta is folded into the count when it reaches the batch.         *)
(***************************************************************************)
Threads  == {"t1", "t2"}
NoThread == "none"
IoOwner  == "io"

nr_cpu_ids == Cardinality(Threads)
percpu_counter_batch == 2
EXT4_FREECLUSTERS_WATERMARK == 4 * (percpu_counter_batch * nr_cpu_ids)

\* The count and the amounts are s64, the local deltas s32.
percpu_counter_add(fbc, cpu, amount) ==
    LET c == s64_add(S64(fbc.counters[cpu]), amount)
    IN  IF s64_le(S64(percpu_counter_batch), c) \/ s64_le(c, S64(-percpu_counter_batch))
        THEN [count |-> s64_add(fbc.count, c),
              counters |-> [fbc.counters EXCEPT ![cpu] = 0]]
        ELSE [fbc EXCEPT !.counters[cpu] = c.lo]

percpu_counter_sub(fbc, cpu, amount) == percpu_counter_add(fbc, cpu, s64_neg(amount))

percpu_counter_sum(fbc) == s64_add(fbc.count, S64(SumOver(fbc.counters, Threads)))

percpu_counter_read_positive(fbc) ==
    IF s64_le(S64(0), fbc.count) THEN fbc.count ELSE S64(0)

percpu_counter_sum_positive(fbc) ==
    IF s64_lt(percpu_counter_sum(fbc), S64(0)) THEN S64(0) ELSE percpu_counter_sum(fbc)

(***************************************************************************)
(* Group descriptors and buffers                                           *)
(***************************************************************************)
Groups == 0 .. (sb.s_groups_count - 1)

\* ext4_get_group_desc: TRUE when it returns a descriptor, FALSE for NULL
ext4_get_group_desc(block_group) ==
    LET ngroups    == ext4_get_groups_count
        group_desc == block_group \div EXT4_DESC_PER_BLOCK
    IN  IF block_group >= ngroups THEN FALSE
        ELSE IF group_desc \notin sb.s_group_desc THEN FALSE
        ELSE TRUE

\* ext4_error: the error is logged and the filesystem is marked as having
\* errors, EXT4_ERROR_FS in s_mount_state.  What the errors= mount option
\* does next (continue, remount read-only, panic) is not modelled.
ext4_error(a) == [a EXCEPT !.error_fs = TRUE]

EXT4_MB_GRP_BBITMAP_CORRUPT(g) == grp[g].bbitmap_corrupt
EXT4_MB_GRP_IBITMAP_CORRUPT(g) == grp[g].ibitmap_corrupt

\* The credentials of a caller as ext4_has_free_clusters looks at them
\* (lines 707-709): its fsuid is s_resuid, it is a member of the group
\* s_resgid, it holds CAP_SYS_RESOURCE.
NoCred == [fsuid_is_resuid |-> FALSE, in_group_resgid |-> FALSE,
           cap_sys_resource |-> FALSE]

\* struct ext4_allocation_request of ext4_new_meta_blocks, with the
\* arguments and results that go with it, before a call.  count is the
\* argument of that name: {} for a NULL pointer, {n} for a pointer to n.
NoRequest ==
    [active |-> FALSE, count |-> {}, len |-> 0, flags |-> {}, cred |-> NoCred,
     reserv_clstrs |-> 0, errp |-> "OK", ret |-> 0]

\* The locals of a thread that is in no call.
IdleThread ==
    [pc |-> "idle", group |-> -1, caller |-> "none", err |-> "OK", flag |-> FALSE,
     op |-> "none", ret |-> "none", done |-> FALSE, active |-> TRUE,
     entry_corrupt |-> FALSE,
     n |-> 0, flags |-> {}, cred |-> NoCred, free |-> S64(0), dirty |-> S64(0), has |-> 0,
     retries |-> 0, ar |-> NoRequest, wait_group |-> -1]

\* A thread returns from the call it is in: op names the call, ret its
\* result; done flips at every return.
Return(t, op, ret, pc) ==
    th' = [th EXCEPT ![t].pc = pc, ![t].op = op, ![t].ret = ret,
                     ![t].done = ~@,
                     ![t].caller = "none", ![t].err = "OK", ![t].flag = FALSE,
                     ![t].n = 0, ![t].flags = {}, ![t].cred = NoCred,
                     ![t].free = S64(0), ![t].dirty = S64(0), ![t].has = 0]

Goto(t, pc) == th' = [th EXCEPT ![t].pc = pc]

\* The return from validation that keeps the buffer on an error
ValidateReturnNoPut(t, g, err, nbh) ==
    IF th[t].caller = "nowait"
    THEN IF err # "OK"
         THEN /\ Return(t, "nowait", err, "idle")
              /\ bh' = nbh
         ELSE /\ Return(t, "nowait", "bh", "have_bh")
              /\ bh' = nbh
    ELSE /\ Return(t, "wait", err, "waited")
         /\ bh' = nbh

\* Leaving ext4_validate_block_bitmap with err, into the caller's code that
\* follows: nowait's verify label (lines 592-598) puts the buffer on an
\* error, wait (line 626) returns what validation returned.  nbh is the
\* buffers as the returning step leaves them.
ValidateReturn(t, g, err, nbh) ==
    IF th[t].caller = "nowait"
    THEN IF err # "OK"
         THEN /\ Return(t, "nowait", err, "idle")
              /\ bh' = [nbh EXCEPT ![g].b_count = @ - 1]
         ELSE /\ Return(t, "nowait", "bh", "have_bh")
              /\ bh' = nbh
    ELSE /\ Return(t, "wait", err, "waited")
         /\ bh' = nbh

(***************************************************************************)
(* ext4_read_block_bitmap_nowait                                           *)
(***************************************************************************)
\* The calls of ext4_read_block_bitmap_nowait a run makes, all threads together
MaxCalls == 3

\* An acquire that marks the last group corrupt when the group has no
\* descriptor
NowaitEnterMarksLast(t, g, getblk_ok) ==
    /\ th[t].pc = "idle"
    /\ th[t].active
    /\ hist.calls < MaxCalls
    /\ hist' = [hist EXCEPT !.calls = @ + 1,
                            !.geom_errors = IF ~ext4_get_group_desc(g)
                                            THEN @ \cup {t} ELSE @]
    /\ IF ~ext4_get_group_desc(g)
       THEN /\ th' = [th EXCEPT ![t].op = "nowait", ![t].ret = "EFSCORRUPTED",
                                ![t].done = ~@,
                                ![t].group = g, ![t].entry_corrupt = FALSE]
            /\ UNCHANGED bh
       ELSE IF ~getblk_ok
       THEN /\ th' = [th EXCEPT ![t].op = "nowait", ![t].ret = "ENOMEM",
                                ![t].done = ~@,
                                ![t].group = g,
                                ![t].entry_corrupt = EXT4_MB_GRP_BBITMAP_CORRUPT(g)]
            /\ UNCHANGED bh
       ELSE /\ th' = [th EXCEPT ![t].pc = IF bh[g].bitmap_uptodate
                                          THEN "v_verified" ELSE "lock_buffer",
                                ![t].group = g, ![t].caller = "nowait",
                                ![t].op = "none", ![t].ret = "none",
                                ![t].entry_corrupt = EXT4_MB_GRP_BBITMAP_CORRUPT(g)]
            /\ bh' = [bh EXCEPT ![g].b_count = @ + 1]
    /\ grp' = IF ~ext4_get_group_desc(g)
              THEN [grp EXCEPT ![sb.s_groups_count - 1].bbitmap_corrupt = TRUE]
              ELSE grp
    /\ acct' = IF ~ext4_get_group_desc(g) \/ ~getblk_ok THEN ext4_error(acct) ELSE acct
    /\ UNCHANGED <<geomVars, group_lock, disk, io, cntVars>>

\* lines 502-519: the descriptor, the buffer, the first look at the
\* bitmap-uptodate flag.  getblk_ok = FALSE is sb_getblk returning NULL.
\* ext4_get_group_desc (lines 327, 341) and line 512 call ext4_error.
NowaitEnter(t, g, getblk_ok) ==
    /\ th[t].pc = "idle"
    /\ th[t].active
    /\ hist.calls < MaxCalls
    /\ hist' = [hist EXCEPT !.calls = @ + 1,
                            !.geom_errors = IF ~ext4_get_group_desc(g)
                                            THEN @ \cup {t} ELSE @]
    /\ IF ~ext4_get_group_desc(g)
       THEN /\ th' = [th EXCEPT ![t].op = "nowait", ![t].ret = "EFSCORRUPTED",
                                ![t].done = ~@,
                                ![t].group = g, ![t].entry_corrupt = FALSE]
            /\ UNCHANGED bh
       ELSE IF ~getblk_ok
       THEN /\ th' = [th EXCEPT ![t].op = "nowait", ![t].ret = "ENOMEM",
                                ![t].done = ~@,
                                ![t].group = g,
                                ![t].entry_corrupt = EXT4_MB_GRP_BBITMAP_CORRUPT(g)]
            /\ UNCHANGED bh
       ELSE /\ th' = [th EXCEPT ![t].pc = IF bh[g].bitmap_uptodate
                                          THEN "v_verified" ELSE "lock_buffer",
                                ![t].group = g, ![t].caller = "nowait",
                                ![t].op = "none", ![t].ret = "none",
                                ![t].entry_corrupt = EXT4_MB_GRP_BBITMAP_CORRUPT(g)]
            /\ bh' = [bh EXCEPT ![g].b_count = @ + 1]
    /\ acct' = IF ~ext4_get_group_desc(g) \/ ~getblk_ok THEN ext4_error(acct) ELSE acct
    /\ UNCHANGED <<geomVars, grp, group_lock, disk, io, cntVars>>

\* lock_buffer without the second look at bitmap-uptodate
NowaitLockBufferNoRecheck(t) ==
    LET g == th[t].group IN
    /\ th[t].pc = "lock_buffer"
    /\ bh[g].lock = NoThread
    /\ Goto(t, "lock_group")
    /\ bh' = [bh EXCEPT ![g].lock = t]
    /\ UNCHANGED <<geomVars, grp, group_lock, disk, io, cntVars, acct, hist>>

\* lines 526-531: lock_buffer, then the second look at bitmap-uptodate
NowaitLockBuffer(t) ==
    LET g == th[t].group IN
    /\ th[t].pc = "lock_buffer"
    /\ bh[g].lock = NoThread
    /\ IF bh[g].bitmap_uptodate
       THEN /\ Goto(t, "v_verified")
            /\ UNCHANGED bh
       ELSE /\ Goto(t, "lock_group")
            /\ bh' = [bh EXCEPT ![g].lock = t]
    /\ UNCHANGED <<geomVars, grp, group_lock, disk, io, cntVars, acct, hist>>

\* line 537: ext4_lock_group
NowaitLockGroup(t) ==
    LET g == th[t].group IN
    /\ th[t].pc = "lock_group"
    /\ group_lock[g] = NoThread
    /\ group_lock' = [group_lock EXCEPT ![g] = t]
    /\ Goto(t, IF gdp[g].bg_flags_block_uninit THEN "init" ELSE "read")
    /\ UNCHANGED <<geomVars, grp, bh, disk, io, cntVars, acct, hist>>

\* line 544, ext4_init_block_bitmap under both locks.  A descriptor that
\* fails its checksum (line 200) leads to the look at the corrupt flag
\* (line 204).  Otherwise the bitmap is written into the buffer and its
\* checksum into the descriptor, or the buffer is zeroed and -EFSCORRUPTED
\* is returned (line 233).  th[t].err is the local err of line 544.
NowaitInit(t) ==
    LET g == th[t].group
        r == ext4_init_block_bitmap(g, gdp[g], bh[g].b_data)
    IN
    /\ th[t].pc = "init"
    /\ IF r.err = "EFSBADCRC"
       THEN /\ th' = [th EXCEPT ![t].pc = "init_sub",
                                ![t].flag = EXT4_MB_GRP_BBITMAP_CORRUPT(g)]
            /\ UNCHANGED <<bh, gdp, hist>>
       ELSE /\ bh' = [bh EXCEPT ![g].b_data = r.data]
            /\ gdp' = [gdp EXCEPT ![g] = r.desc]
            /\ hist' = [hist EXCEPT !.inits[g] = @ + 1]
            /\ th' = [th EXCEPT ![t].pc = "init_bitmap_uptodate", ![t].err = r.err]
    /\ UNCHANGED <<sb, grp, group_lock, disk, io, cntVars, acct>>

\* lines 204-206: percpu_counter_sub when the flag was seen clear
NowaitInitSub(t) ==
    LET g == th[t].group IN
    /\ th[t].pc = "init_sub"
    /\ IF ~th[t].flag
       THEN /\ fcc' = percpu_counter_sub(fcc, t, grp[g].bb_free)
            /\ hist' = [hist EXCEPT !.debits[g] = @ + 1]
       ELSE UNCHANGED <<fcc, hist>>
    /\ Goto(t, "init_set")
    /\ UNCHANGED <<geomVars, bitmapVars, dcc, fic, acct>>

\* The failed descriptor checksum without the block-bitmap-corrupt flag
NowaitInitSetNoFlag(t) ==
    /\ th[t].pc = "init_set"
    /\ Goto(t, "init_inodes")
    /\ UNCHANGED <<geomVars, bitmapVars, cntVars, acct, hist>>

\* line 208: the block-bitmap-corrupt flag is set
NowaitInitSet(t) ==
    LET g == th[t].group IN
    /\ th[t].pc = "init_set"
    /\ grp' = [grp EXCEPT ![g].bbitmap_corrupt = TRUE]
    /\ Goto(t, "init_inodes")
    /\ UNCHANGED <<geomVars, bh, group_lock, disk, io, cntVars, acct, hist>>

\* lines 209-214: the free inodes of the group are taken off the counter
\* unless the inode bitmap is marked corrupt already
NowaitInitInodes(t) ==
    LET g == th[t].group IN
    /\ th[t].pc = "init_inodes"
    /\ fic' = IF ~EXT4_MB_GRP_IBITMAP_CORRUPT(g)
              THEN percpu_counter_sub(fic, t, S64(gdp[g].bg_free_inodes_count))
              ELSE fic
    /\ Goto(t, "init_inode_set")
    /\ UNCHANGED <<geomVars, bitmapVars, fcc, dcc, acct, hist>>

\* lines 216-218: the inode-bitmap-corrupt flag is set and
\* ext4_init_block_bitmap returns -EFSBADCRC
NowaitInitInodeSet(t) ==
    LET g == th[t].group IN
    /\ th[t].pc = "init_inode_set"
    /\ grp' = [grp EXCEPT ![g].ibitmap_corrupt = TRUE]
    /\ th' = [th EXCEPT ![t].pc = "init_bitmap_uptodate", ![t].err = "EFSBADCRC"]
    /\ UNCHANGED <<geomVars, bh, group_lock, disk, io, cntVars, acct, hist>>

\* line 549: set_bitmap_uptodate, whatever ext4_init_block_bitmap returned
NowaitSetBitmapUptodate(t) ==
    LET g == th[t].group IN
    /\ th[t].pc = "init_bitmap_uptodate"
    /\ bh' = [bh EXCEPT ![g].bitmap_uptodate = TRUE]
    /\ Goto(t, "init_buffer_uptodate")
    /\ UNCHANGED <<geomVars, grp, group_lock, disk, io, cntVars, acct, hist>>

\* line 551: set_buffer_uptodate
NowaitSetBufferUptodate(t) ==
    LET g == th[t].group IN
    /\ th[t].pc = "init_buffer_uptodate"
    /\ bh' = [bh EXCEPT ![g].uptodate = TRUE]
    /\ Goto(t, "init_unlock_group")
    /\ UNCHANGED <<geomVars, grp, group_lock, disk, io, cntVars, acct, hist>>

\* line 553: ext4_unlock_group, the buffer still locked
NowaitInitUnlockGroup(t) ==
    LET g == th[t].group IN
    /\ th[t].pc = "init_unlock_group"
    /\ group_lock' = [group_lock EXCEPT ![g] = NoThread]
    /\ Goto(t, "init_unlock_buffer")
    /\ UNCHANGED <<geomVars, grp, bh, disk, io, cntVars, acct, hist>>

\* lines 554-555 and 560: unlock_buffer, then the test of err: on to the
\* verify label, or to ext4_error
NowaitInitUnlockBuffer(t) ==
    LET g == th[t].group IN
    /\ th[t].pc = "init_unlock_buffer"
    /\ bh' = [bh EXCEPT ![g].lock = NoThread]
    /\ Goto(t, IF th[t].err # "OK" THEN "init_error" ELSE "v_verified")
    /\ UNCHANGED <<geomVars, grp, group_lock, disk, io, cntVars, acct, hist>>

\* lines 556-558 and 597-598: ext4_error with both locks dropped, then the
\* out label: the buffer is put and the error returned
NowaitInitError(t) ==
    LET g == th[t].group IN
    /\ th[t].pc = "init_error"
    /\ acct' = ext4_error(acct)
    /\ bh' = [bh EXCEPT ![g].b_count = @ - 1]
    /\ Return(t, "nowait", th[t].err, "idle")
    /\ UNCHANGED <<geomVars, grp, group_lock, disk, io, cntVars, hist>>

\* The group lock kept over the look at the buffer and the read
NowaitReadHoldingGroup(t) ==
    /\ th[t].pc = "read"
    /\ Goto(t, "read_uptodate")
    /\ UNCHANGED <<geomVars, bitmapVars, cntVars, acct, hist>>

\* line 563: ext4_unlock_group for a group that is not flagged
\* uninitialized, the buffer still locked
NowaitRead(t) ==
    LET g == th[t].group IN
    /\ th[t].pc = "read"
    /\ group_lock' = [group_lock EXCEPT ![g] = NoThread]
    /\ Goto(t, "read_uptodate")
    /\ UNCHANGED <<geomVars, grp, bh, disk, io, cntVars, acct, hist>>

\* lines 565-570 and 583: a buffer that is up to date has its bitmap
\* marked up to date; one that is not is marked new, for the read
NowaitReadUptodate(t) ==
    LET g == th[t].group IN
    /\ th[t].pc = "read_uptodate"
    /\ IF bh[g].uptodate
       THEN /\ bh' = [bh EXCEPT ![g].bitmap_uptodate = TRUE]
            /\ Goto(t, "read_unlock")
       ELSE /\ bh' = [bh EXCEPT ![g].new = TRUE]
            /\ Goto(t, "read_submit")
    /\ UNCHANGED <<geomVars, grp, group_lock, disk, io, cntVars, acct, hist>>

\* lines 571-572: unlock_buffer, on to the verify label
NowaitReadUnlock(t) ==
    LET g == th[t].group IN
    /\ th[t].pc = "read_unlock"
    /\ bh' = [bh EXCEPT ![g].lock = NoThread]
    /\ Goto(t, "v_verified")
    /\ UNCHANGED <<geomVars, grp, group_lock, disk, io, cntVars, acct, hist>>

\* lines 585-589: get_bh and submit_bh: the read holds the buffer lock and
\* a reference until it completes; the locked buffer is returned
NowaitReadSubmit(t) ==
    LET g == th[t].group IN
    /\ th[t].pc = "read_submit"
    /\ bh' = [bh EXCEPT ![g].b_count = @ + 1, ![g].lock = IoOwner]
    /\ io' = [io EXCEPT ![g] = TRUE]
    /\ hist' = [hist EXCEPT !.reads[g] = @ + 1]
    /\ Return(t, "nowait", "bh", "have_bh")
    /\ UNCHANGED <<geomVars, grp, group_lock, disk, cntVars, acct>>

(***************************************************************************)
(* ext4_validate_block_bitmap, entered from nowait's verify label and from *)
(* ext4_wait_block_bitmap                                                  *)
(***************************************************************************)
\* lines 431-432: buffer_verified
ValidateVerified(t) ==
    LET g == th[t].group IN
    /\ th[t].pc = "v_verified"
    /\ IF bh[g].verified
       THEN ValidateReturn(t, g, "OK", bh)
       ELSE /\ Goto(t, "v_corrupt")
            /\ UNCHANGED bh
    /\ UNCHANGED <<geomVars, grp, group_lock, disk, io, cntVars, acct, hist>>

\* lines 433-434: EXT4_MB_GRP_BBITMAP_CORRUPT
ValidateCorrupt(t) ==
    LET g == th[t].group IN
    /\ th[t].pc = "v_corrupt"
    /\ IF EXT4_MB_GRP_BBITMAP_CORRUPT(g)
       THEN ValidateReturn(t, g, "EFSCORRUPTED", bh)
       ELSE /\ Goto(t, "v_lock")
            /\ UNCHANGED bh
    /\ UNCHANGED <<geomVars, grp, group_lock, disk, io, cntVars, acct, hist>>

\* line 436: ext4_lock_group
ValidateLock(t) ==
    LET g == th[t].group IN
    /\ th[t].pc = "v_lock"
    /\ group_lock[g] = NoThread
    /\ group_lock' = [group_lock EXCEPT ![g] = t]
    /\ Goto(t, "v_check")
    /\ UNCHANGED <<geomVars, grp, bh, disk, io, cntVars, acct, hist>>

\* lines 437-439, 448-450, 461-464: the checksum and the layout are checked
\* under the group lock; the lock is dropped; a good bitmap is marked
\* verified, a bad one leaves the error to the steps that follow.
ValidateCheck(t) ==
    LET g   == th[t].group
        err == ValidateChecks(gdp[g], g, bh[g].b_data)
    IN
    /\ th[t].pc = "v_check"
    /\ group_lock' = [group_lock EXCEPT ![g] = NoThread]
    /\ hist' = [hist EXCEPT !.checks[g] = @ + 1]
    /\ IF err = "OK"
       THEN ValidateReturn(t, g, "OK", [bh EXCEPT ![g].verified = TRUE])
       ELSE /\ th' = [th EXCEPT ![t].pc = "v_fail", ![t].err = err]
            /\ UNCHANGED bh
    /\ UNCHANGED <<geomVars, grp, disk, io, cntVars, acct>>

\* lines 440-441 and 451-453: ext4_error, then the look at the corrupt
\* flag, outside the group lock
ValidateFail(t) ==
    LET g == th[t].group IN
    /\ th[t].pc = "v_fail"
    /\ acct' = ext4_error(acct)
    /\ th' = [th EXCEPT ![t].pc = "v_fail_sub",
                        ![t].flag = EXT4_MB_GRP_BBITMAP_CORRUPT(g)]
    /\ UNCHANGED <<geomVars, bitmapVars, cntVars, hist>>

\* lines 442-443 and 454-455: percpu_counter_sub when the flag was seen clear
ValidateFailSub(t) ==
    LET g == th[t].group IN
    /\ th[t].pc = "v_fail_sub"
    /\ IF ~th[t].flag
       THEN /\ fcc' = percpu_counter_sub(fcc, t, grp[g].bb_free)
            /\ hist' = [hist EXCEPT !.debits[g] = @ + 1]
       ELSE UNCHANGED <<fcc, hist>>
    /\ Goto(t, "v_fail_set")
    /\ UNCHANGED <<geomVars, bitmapVars, dcc, fic, acct>>

\* lines 444-445 and 456-457: the corrupt flag is set, the error returned
ValidateFailSet(t) ==
    LET g == th[t].group IN
    /\ th[t].pc = "v_fail_set"
    /\ grp' = [grp EXCEPT ![g].bbitmap_corrupt = TRUE]
    /\ ValidateReturn(t, g, th[t].err, bh)
    /\ UNCHANGED <<geomVars, group_lock, disk, io, cntVars, acct, hist>>

(***************************************************************************)
(* ext4_wait_block_bitmap, called with the buffer nowait returned          *)
(***************************************************************************)
\* lines 607-611: ext4_wait_block_bitmap(sb, block_group, bh), bh the buffer
\* of group th[t].group that thread t holds.  Nothing is done, and the
\* group is not looked at, for a buffer that is not new; otherwise the
\* descriptor of block_group is looked up, ext4_get_group_desc calling
\* ext4_error when there is none.  block_group is the group of the buffer,
\* as ext4_read_block_bitmap passes it (line 644), or a group without a
\* descriptor.
WaitEnter(t, block_group) ==
    LET g == th[t].group IN
    /\ th[t].pc = "have_bh"
    /\ (block_group = g \/ ~ext4_get_group_desc(block_group))
    /\ IF ~bh[g].new
       THEN /\ th' = [th EXCEPT ![t].pc = "waited", ![t].op = "wait", ![t].ret = "OK",
                                ![t].done = ~@, ![t].wait_group = block_group,
                                ![t].entry_corrupt = EXT4_MB_GRP_BBITMAP_CORRUPT(g)]
            /\ UNCHANGED acct
       ELSE IF ~ext4_get_group_desc(block_group)
       THEN /\ th' = [th EXCEPT ![t].pc = "waited", ![t].op = "wait",
                                ![t].ret = "EFSCORRUPTED", ![t].done = ~@,
                                ![t].wait_group = block_group,
                                ![t].entry_corrupt = EXT4_MB_GRP_BBITMAP_CORRUPT(g)]
            /\ acct' = ext4_error(acct)
       ELSE /\ th' = [th EXCEPT ![t].pc = "w_wait", ![t].caller = "wait",
                                ![t].op = "none", ![t].ret = "none",
                                ![t].wait_group = block_group,
                                ![t].entry_corrupt = EXT4_MB_GRP_BBITMAP_CORRUPT(g)]
            /\ UNCHANGED acct
    /\ UNCHANGED <<geomVars, bitmapVars, cntVars, hist>>

\* line 614: wait_on_buffer returns once the buffer is unlocked
WaitOnBuffer(t) ==
    LET g == th[t].group IN
    /\ th[t].pc = "w_wait"
    /\ bh[g].lock = NoThread
    /\ Goto(t, "w_uptodate")
    /\ UNCHANGED <<geomVars, bitmapVars, cntVars, acct, hist>>

\* The bitmap is validated whether the buffer is up to date or not
WaitUptodateNoEio(t) ==
    /\ th[t].pc = "w_uptodate"
    /\ Goto(t, "v_verified")
    /\ UNCHANGED <<geomVars, bitmapVars, cntVars, acct, hist>>

\* lines 616-626: ext4_error and -EIO for a buffer that is not up to
\* date; otherwise the new flag is cleared and the bitmap is validated
WaitUptodate(t) ==
    LET g == th[t].group IN
    /\ th[t].pc = "w_uptodate"
    /\ IF ~bh[g].uptodate
       THEN /\ Return(t, "wait", "EIO", "waited")
            /\ acct' = ext4_error(acct)
            /\ UNCHANGED bh
       ELSE /\ bh' = [bh EXCEPT ![g].new = FALSE]
            /\ Goto(t, "v_verified")
            /\ UNCHANGED acct
    /\ UNCHANGED <<geomVars, grp, group_lock, disk, io, cntVars, hist>>

\* The caller is done with the buffer it was given: brelse or put_bh
\* (lines 644-647 of ext4_read_block_bitmap after a failed wait).
PutBh(t) ==
    LET g == th[t].group IN
    /\ th[t].pc \in {"have_bh", "waited"}
    /\ bh' = [bh EXCEPT ![g].b_count = @ - 1]
    /\ th' = [th EXCEPT ![t].pc = "idle", ![t].wait_group = -1]
    /\ UNCHANGED <<geomVars, grp, group_lock, disk, io, cntVars, acct, hist>>

(***************************************************************************)
(* Completion of a submitted read: ext4_end_bitmap_read                    *)
(***************************************************************************)
ext4_end_bitmap_read(g, uptodate) ==
    /\ io[g]
    /\ io' = [io EXCEPT ![g] = FALSE]
    /\ bh' = IF uptodate
             THEN [bh EXCEPT ![g].b_data = disk[g], ![g].uptodate = TRUE,
                             ![g].bitmap_uptodate = TRUE, ![g].lock = NoThread,
                             ![g].b_count = @ - 1]
             ELSE [bh EXCEPT ![g].lock = NoThread, ![g].b_count = @ - 1]
    /\ UNCHANGED <<geomVars, grp, group_lock, disk, cntVars, acct, th, hist>>

(***************************************************************************)
(* The free-space accountant: ext4_has_free_clusters and                   *)
(* ext4_claim_free_clusters                                                *)
(***************************************************************************)
\* lines 690-691: the root reserve in clusters plus the reserved clusters
HasFreeRsv ==
    (acct.r_blocks_count \div Pow2(sb.s_cluster_bits)) + acct.s_resv_clusters

\* The approximate values are trusted down to a margin of zero
HasFreeNearLimitZero(free_clusters, dirty_clusters, nclusters) ==
    s64_lt(s64_sub(free_clusters, s64_add(S64(nclusters + HasFreeRsv), dirty_clusters)),
           S64(0))

\* lines 693-694: the approximate values are too close to the limit
HasFreeNearLimit(free_clusters, dirty_clusters, nclusters) ==
    s64_lt(s64_sub(free_clusters, s64_add(S64(nclusters + HasFreeRsv), dirty_clusters)),
           S64(EXT4_FREECLUSTERS_WATERMARK))

\* lines 707-710: the caller may use the root reserve
HasFreeRootAllowed(flags, cred) ==
    \/ cred.fsuid_is_resuid
    \/ (~acct.s_resgid_is_root /\ cred.in_group_resgid)
    \/ cred.cap_sys_resource
    \/ "EXT4_MB_USE_ROOT_BLOCKS" \in flags

\* The ladder without the reserved clusters in its second rung
HasFreeLadderNoResv(free_clusters, dirty_clusters, nclusters, flags, cred) ==
    IF s64_le(s64_add(S64(HasFreeRsv + nclusters), dirty_clusters), free_clusters) THEN 1
    ELSE IF HasFreeRootAllowed(flags, cred)
            /\ s64_le(s64_add(S64(nclusters), dirty_clusters), free_clusters)
    THEN 1
    ELSE IF "EXT4_MB_USE_RESERVED" \in flags
            /\ s64_le(s64_add(S64(nclusters), dirty_clusters), free_clusters)
    THEN 1
    ELSE 0

\* lines 702-723: the decision on the values of free and dirty in use
HasFreeLadder(free_clusters, dirty_clusters, nclusters, flags, cred) ==
    IF s64_le(s64_add(S64(HasFreeRsv + nclusters), dirty_clusters), free_clusters) THEN 1
    ELSE IF HasFreeRootAllowed(flags, cred)
            /\ s64_le(s64_add(s64_add(S64(nclusters), dirty_clusters),
                              S64(acct.s_resv_clusters)), free_clusters)
    THEN 1
    ELSE IF "EXT4_MB_USE_RESERVED" \in flags
            /\ s64_le(s64_add(S64(nclusters), dirty_clusters), free_clusters)
    THEN 1
    ELSE 0

\* The calls of ext4_claim_free_clusters a run makes, all threads together
MaxClaims == 2

\* The largest number of clusters a call asks for
MaxWant == 2

\* lines 733 and 682-685: ext4_claim_free_clusters calls
\* ext4_has_free_clusters, which reads the approximate counters.
ClaimEnter(t, nclusters, flags, cred) ==
    /\ th[t].pc = "idle"
    /\ th[t].active
    /\ hist.claims < MaxClaims
    /\ hist' = [hist EXCEPT !.claims = @ + 1,
                            !.special_claims =
                                IF flags # {} \/ HasFreeRootAllowed(flags, cred)
                                THEN @ + 1 ELSE @]
    /\ th' = [th EXCEPT ![t].pc = "c_check", ![t].op = "none", ![t].ret = "none",
                        ![t].n = nclusters, ![t].flags = flags, ![t].cred = cred,
                        ![t].free = percpu_counter_read_positive(fcc),
                        ![t].dirty = percpu_counter_read_positive(dcc),
                        ![t].has = 0]
    /\ UNCHANGED <<geomVars, bitmapVars, cntVars, acct>>

\* Where ext4_claim_free_clusters returns to: the allocator that called it
\* for the request of ext4_new_meta_blocks, or the caller outside.
ClaimReturnPc(t) == IF th[t].ar.active THEN "mb_claimed" ELSE "idle"

\* lines 693-723 and the test of line 733: near the limit the counters are
\* summed; the ladder decides; a refused claim returns -ENOSPC.
ClaimCheck(t) ==
    LET near  == HasFreeNearLimit(th[t].free, th[t].dirty, th[t].n)
        free  == IF near THEN percpu_counter_sum_positive(fcc) ELSE th[t].free
        dirty == IF near THEN percpu_counter_sum_positive(dcc) ELSE th[t].dirty
        has   == HasFreeLadder(free, dirty, th[t].n, th[t].flags, th[t].cred)
    IN
    /\ th[t].pc = "c_check"
    /\ IF has = 1
       THEN th' = [th EXCEPT ![t].free = free, ![t].dirty = dirty, ![t].has = has,
                             ![t].pc = "c_add"]
       ELSE Return(t, "claim", "ENOSPC", ClaimReturnPc(t))
    /\ UNCHANGED <<geomVars, bitmapVars, cntVars, acct, hist>>

\* The last granted claim: who made it, for how many clusters, the exact
\* dirty count before it, and whether it has been released.
Granted(t) ==
    [thread |-> t, n |-> th[t].n, before |-> percpu_counter_sum(dcc), released |-> FALSE]

\* The add of one cluster more than was asked for
ClaimAddOneMore(t) ==
    /\ th[t].pc = "c_add"
    /\ dcc' = percpu_counter_add(dcc, t, S64(th[t].n + 1))
    /\ hist' = [hist EXCEPT !.granted = Granted(t)]
    /\ Return(t, "claim", "OK", ClaimReturnPc(t))
    /\ UNCHANGED <<geomVars, bitmapVars, fcc, fic, acct>>

\* The return of 0 without the add
ClaimAddNoCount(t) ==
    /\ th[t].pc = "c_add"
    /\ hist' = [hist EXCEPT !.granted = Granted(t)]
    /\ Return(t, "claim", "OK", ClaimReturnPc(t))
    /\ UNCHANGED <<geomVars, bitmapVars, cntVars, acct>>

\* lines 734-735: percpu_counter_add on the dirty counter, return 0
ClaimAdd(t) ==
    /\ th[t].pc = "c_add"
    /\ dcc' = percpu_counter_add(dcc, t, S64(th[t].n))
    /\ hist' = [hist EXCEPT !.granted = Granted(t)]
    /\ Return(t, "claim", "OK", ClaimReturnPc(t))
    /\ UNCHANGED <<geomVars, bitmapVars, fcc, fic, acct>>

\* The release of the last granted claim, on any cpu: the clusters
\* claimed are subtracted from the dirty counter.
release(cpu) ==
    /\ hist.granted.thread # NoThread
    /\ ~hist.granted.released
    /\ dcc' = percpu_counter_sub(dcc, cpu, S64(hist.granted.n))
    /\ hist' = [hist EXCEPT !.granted.released = TRUE]
    /\ UNCHANGED <<geomVars, bitmapVars, fcc, fic, acct, th>>

(***************************************************************************)
(* The retry protocol: ext4_should_retry_alloc                             *)
(***************************************************************************)
\* The calls of ext4_should_retry_alloc a run makes, all threads together
MaxRetryCalls == 5

\* The function without the test of s_journal
ShouldRetryOutcomeNoJournal(retries, has, journal, pending) ==
    IF has = 0 THEN [ret |-> "0", retries |-> retries, commit |-> FALSE]
    ELSE IF retries > 3 THEN [ret |-> "0", retries |-> retries + 1, commit |-> FALSE]
    ELSE [ret |-> "1", retries |-> retries + 1, commit |-> (pending # 0)]

\* lines 754-764: what ext4_should_retry_alloc returns ("1" or "0"), the
\* value it leaves in *retries, and whether it forces a commit.  The
\* counter is incremented only when the capacity test has passed (the ||
\* stops at its first true operand), and before s_journal is looked at.
ShouldRetryOutcome(retries, has, journal, pending) ==
    IF has = 0 THEN [ret |-> "0", retries |-> retries, commit |-> FALSE]
    ELSE IF retries > 3 THEN [ret |-> "0", retries |-> retries + 1, commit |-> FALSE]
    ELSE IF ~journal THEN [ret |-> "0", retries |-> retries + 1, commit |-> FALSE]
    ELSE [ret |-> "1", retries |-> retries + 1, commit |-> (pending # 0)]

\* jbd2_journal_force_commit_nested: the running transaction is committed;
\* the frees that waited for the commit are no longer pending.
jbd2_journal_force_commit_nested(a) == [a EXCEPT !.s_mb_free_pending = 0]

\* lines 754 and 682-685: ext4_should_retry_alloc, called by thread t with
\* the credentials cred and the counter of attempts th[t].retries, calls
\* ext4_has_free_clusters(sbi, 1, 0), which reads the approximate counters.
RetryEnter(t, cred) ==
    /\ th[t].pc = "idle"
    /\ th[t].active
    /\ hist.retry_calls < MaxRetryCalls
    /\ hist' = [hist EXCEPT !.retry_calls = @ + 1]
    /\ th' = [th EXCEPT ![t].pc = "r_check", ![t].op = "none", ![t].ret = "none",
                        ![t].n = 1, ![t].flags = {}, ![t].cred = cred,
                        ![t].free = percpu_counter_read_positive(fcc),
                        ![t].dirty = percpu_counter_read_positive(dcc),
                        ![t].has = 0]
    /\ UNCHANGED <<geomVars, bitmapVars, cntVars, acct>>

\* lines 693-723 and 754-764: the capacity test is finished (near the limit
\* the counters are summed), then *retries and s_journal are tested and
\* s_mb_free_pending is read.  The call returns 0, or returns 1 when no
\* free is pending, or enters jbd2_journal_force_commit_nested (line 763),
\* where it waits for the commit.
RetryCheck(t) ==
    LET near  == HasFreeNearLimit(th[t].free, th[t].dirty, th[t].n)
        free  == IF near THEN percpu_counter_sum_positive(fcc) ELSE th[t].free
        dirty == IF near THEN percpu_counter_sum_positive(dcc) ELSE th[t].dirty
        has   == HasFreeLadder(free, dirty, th[t].n, th[t].flags, th[t].cred)
        r     == ShouldRetryOutcome(th[t].retries, has, acct.s_journal,
                                    acct.s_mb_free_pending)
    IN
    /\ th[t].pc = "r_check"
    /\ IF r.commit
       THEN th' = [th EXCEPT ![t].free = free, ![t].dirty = dirty, ![t].has = has,
                             ![t].retries = r.retries,
                             ![t].pc = "retry_commit_wait"]
       ELSE th' = [th EXCEPT ![t].pc = "idle", ![t].op = "retry", ![t].ret = r.ret,
                             ![t].done = ~@, ![t].retries = r.retries,
                             ![t].n = 0, ![t].flags = {}, ![t].cred = NoCred,
                             ![t].free = S64(0), ![t].dirty = S64(0), ![t].has = 0]
    /\ hist' = [hist EXCEPT
                   !.seq[t] = [calls |-> @.calls + 1,
                               trues |-> IF r.ret = "1" THEN @.trues + 1 ELSE @.trues,
                               clean |-> @.clean /\ has = 1 /\ acct.s_journal]]
    /\ UNCHANGED <<geomVars, bitmapVars, cntVars, acct>>

\* lines 763-764: the commit the call has waited for is done, the call
\* returns 1.
RetryCommit(t) ==
    /\ th[t].pc = "retry_commit_wait"
    /\ acct' = jbd2_journal_force_commit_nested(acct)
    /\ hist' = [hist EXCEPT !.commits = @ + 1]
    /\ Return(t, "retry", "1", "idle")
    /\ UNCHANGED <<geomVars, bitmapVars, cntVars>>

\* The caller starts a new allocation: its counter of attempts is zero.
RetryReset(t) ==
    /\ th[t].pc = "idle"
    /\ th[t].active
    /\ th[t].retries # 0
    /\ th' = [th EXCEPT ![t].retries = 0]
    /\ hist' = [hist EXCEPT !.seq[t] = [calls |-> 0, trues |-> 0, clean |-> TRUE]]
    /\ UNCHANGED <<geomVars, bitmapVars, cntVars, acct>>

\* ext4_mb_free_metadata: blocks freed in the running transaction wait for
\* its commit.
FreePending ==
    /\ acct.s_journal
    /\ acct.s_mb_free_pending = 0
    /\ acct' = [acct EXCEPT !.s_mb_free_pending = 1]
    /\ UNCHANGED <<geomVars, bitmapVars, cntVars, th, hist>>

(***************************************************************************)
(* ext4_new_meta_blocks, lines 779-805, and the allocator it calls.        *)
(* ext4_mb_new_blocks is the allocation policy engine: of what it does,    *)
(* the steps below keep what reaches the state of this layer: the claim of *)
(* the clusters, the bits set in the cached bitmap, the descriptor and the *)
(* group info of the group chosen, the free and dirty counters.            *)
(***************************************************************************)
\* The calls of ext4_new_meta_blocks a run makes, all threads together
MaxAllocs == 1

\* lines 785-791: the request is zeroed and filled, ar.len is *count or 1,
\* ext4_mb_new_blocks is called.
ext4_new_meta_blocks(t, count, flags, cred) ==
    /\ th[t].pc = "idle"
    /\ th[t].active
    /\ hist.allocs < MaxAllocs
    /\ hist' = [hist EXCEPT !.allocs = @ + 1]
    /\ th' = [th EXCEPT ![t].pc = "mb_new_blocks", ![t].op = "none", ![t].ret = "none",
                        ![t].ar = [NoRequest EXCEPT
                                      !.active = TRUE,
                                      !.count = count,
                                      !.len = IF count # {}
                                              THEN CHOOSE n \in count : TRUE ELSE 1,
                                      !.flags = flags,
                                      !.cred = cred]]
    /\ UNCHANGED <<geomVars, bitmapVars, cntVars, acct>>

\* ext4_mb_new_blocks, the head of its loop: without
\* EXT4_MB_DELALLOC_RESERVED the clusters are claimed,
\* while (ar->len && ext4_claim_free_clusters(sbi, ar->len, ar->flags));
\* with no length left, *errp = -ENOSPC and 0 is returned.
MbClaim(t) ==
    LET ar == th[t].ar IN
    /\ th[t].pc = "mb_new_blocks"
    /\ IF "EXT4_MB_DELALLOC_RESERVED" \in ar.flags
       THEN Goto(t, "mb_allocate")
       ELSE IF ar.len = 0
       THEN th' = [th EXCEPT ![t].ar.errp = "ENOSPC", ![t].ar.ret = 0,
                             ![t].pc = "new_meta_ret"]
       ELSE th' = [th EXCEPT ![t].pc = "c_check", ![t].op = "none", ![t].ret = "none",
                             ![t].n = ar.len, ![t].flags = ar.flags,
                             ![t].cred = ar.cred,
                             ![t].free = percpu_counter_read_positive(fcc),
                             ![t].dirty = percpu_counter_read_positive(dcc),
                             ![t].has = 0]
    /\ UNCHANGED <<geomVars, bitmapVars, cntVars, acct, hist>>

\* ext4_mb_new_blocks, the body of its loop and the line after it: a
\* refused claim halves the length, ar->len = ar->len >> 1; a granted one
\* is kept in reserv_clstrs.
MbClaimed(t) ==
    LET ar == th[t].ar IN
    /\ th[t].pc = "mb_claimed"
    /\ IF th[t].ret = "ENOSPC"
       THEN th' = [th EXCEPT ![t].ar.len = ar.len \div 2, ![t].pc = "mb_new_blocks"]
       ELSE th' = [th EXCEPT ![t].ar.reserv_clstrs = ar.len, ![t].pc = "mb_allocate"]
    /\ UNCHANGED <<geomVars, bitmapVars, cntVars, acct, hist>>

\* ext4_mb_regular_allocator and ext4_mb_mark_diskspace_used under the
\* group lock.  Either a run of len free clusters, len no more than asked
\* for, is found in a group that is not marked corrupt, whose bitmap is
\* cached and verified and whose free count covers the run: its bits are
\* set, the descriptor loses BLOCK_UNINIT (its free count is then set from
\* ext4_free_clusters_after_init) and len free clusters, both checksums are
\* set again, the group info loses len free clusters.  Or nothing is
\* found: *errp = -ENOSPC, ar->len = 0.
MbAllocate(t) ==
    LET ar == th[t].ar IN
    /\ th[t].pc = "mb_allocate"
    /\ \/ \E g \in Groups :
          \E start \in 0 .. (num_clusters_in_group(g) - 1), len \in 1 .. ar.len :
             LET run  == start .. (start + len - 1)
                 data == bh[g].b_data \cup run
                 d0   == gdp[g]
                 d1   == IF d0.bg_flags_block_uninit
                         THEN [d0 EXCEPT
                                  !.bg_flags_block_uninit = FALSE,
                                  !.bg_free_blocks_count =
                                      ext4_free_clusters_after_init(g, d0).lo]
                         ELSE d0
                 d2   == [d1 EXCEPT !.bg_free_blocks_count = @ - len]
             IN
             /\ group_lock[g] = NoThread
             /\ ~EXT4_MB_GRP_BBITMAP_CORRUPT(g)
             /\ bh[g].uptodate /\ bh[g].verified
             /\ start + len <= num_clusters_in_group(g)
             /\ run \cap bh[g].b_data = {}
             /\ grp[g].bb_free.hi = 0
             /\ len <= grp[g].bb_free.lo
             /\ (d0.bg_flags_block_uninit
                    => ext4_free_clusters_after_init(g, d0).hi = 0)
             /\ len <= d1.bg_free_blocks_count
             /\ bh' = [bh EXCEPT ![g].b_data = data]
             /\ gdp' = [gdp EXCEPT
                           ![g] = ext4_group_desc_csum_set(
                                      g, ext4_block_bitmap_csum_set(d2, data))]
             /\ grp' = [grp EXCEPT ![g].bb_free = s64_sub(@, S64(len))]
             /\ th' = [th EXCEPT
                          ![t].ar.len = len,
                          ![t].ar.errp = "OK",
                          ![t].ar.ret = ext4_group_first_block_no(g)
                                           + start * s_cluster_ratio,
                          ![t].pc = "mb_account"]
       \/ /\ th' = [th EXCEPT ![t].ar.len = 0, ![t].ar.errp = "ENOSPC",
                              ![t].ar.ret = 0, ![t].pc = "mb_account"]
          /\ UNCHANGED <<gdp, grp, bh>>
    /\ UNCHANGED <<sb, group_lock, disk, io, cntVars, acct, hist>>

\* ext4_mb_mark_diskspace_used after the group lock, and the label out of
\* ext4_mb_new_blocks: the clusters allocated leave the free counter; the
\* clusters claimed leave the dirty counter, allocated or not.
MbAccount(t) ==
    LET ar == th[t].ar IN
    /\ th[t].pc = "mb_account"
    /\ fcc' = IF ar.errp = "OK" THEN percpu_counter_sub(fcc, t, S64(ar.len)) ELSE fcc
    /\ dcc' = IF "EXT4_MB_DELALLOC_RESERVED" \notin ar.flags
              THEN percpu_counter_sub(dcc, t, S64(ar.reserv_clstrs))
              ELSE dcc
    /\ Goto(t, "new_meta_ret")
    /\ UNCHANGED <<geomVars, bitmapVars, fic, acct, hist>>

\* lines 792-804: *count = ar.len when count is given, the quota is charged
\* for a delayed allocation (no state of this layer), ret is returned.
NewMetaReturn(t) ==
    LET ar == th[t].ar IN
    /\ th[t].pc = "new_meta_ret"
    /\ hist' = [hist EXCEPT
                   !.allocated = [thread |-> t, ret |-> ar.ret,
                                  count |-> IF ar.count # {} THEN {ar.len} ELSE {},
                                  errp |-> ar.errp]]
    /\ th' = [th EXCEPT ![t].pc = "idle", ![t].op = "new_meta", ![t].ret = ar.errp,
                        ![t].done = ~@, ![t].ar = NoRequest]
    /\ UNCHANGED <<geomVars, bitmapVars, cntVars, acct>>

(***************************************************************************)
(* The state after mount.  ext4_fill_super derives the group count, the    *)
(* descriptor block count and the standard-group-size option from the      *)
(* superblock; ext4_check_descriptors has accepted every descriptor.       *)
(***************************************************************************)
CeilDiv(a, b) == (a + b - 1) \div b

\* p: the superblock fields and features read from disk
MkSb(p) ==
    LET ratio   == Pow2(p.cluster_bits)
        bpg     == p.clusters_per_group * ratio
        ngroups == CeilDiv(p.blocks_count - p.first_data_block, bpg)
        gdb     == CeilDiv(ngroups, p.desc_per_block)
    IN  [s_first_data_block     |-> p.first_data_block,
         s_blocksize            |-> p.blocksize,
         s_blocksize_bits       |-> IF p.blocksize = 1 THEN 0 ELSE 1,
         s_cluster_bits         |-> p.cluster_bits,
         s_blocks_per_group     |-> bpg,
         s_clusters_per_group   |-> p.clusters_per_group,
         s_blocks_count         |-> p.blocks_count,
         s_groups_count         |-> ngroups,
         s_desc_per_block       |-> p.desc_per_block,
         s_gdb_count            |-> gdb,
         s_group_desc           |-> 0 .. (gdb - 1),
         s_reserved_gdt_blocks  |-> p.reserved_gdt_blocks,
         s_itb_per_group        |-> p.itb_per_group,
         s_first_meta_bg        |-> p.first_meta_bg,
         s_backup_bgs           |-> p.backup_bgs,
         feature_sparse_super   |-> p.sparse_super,
         feature_sparse_super2  |-> p.sparse_super2,
         feature_meta_bg        |-> p.meta_bg,
         feature_flex_bg        |-> p.flex_bg,
         feature_gdt_csum       |-> p.gdt_csum,
         feature_metadata_csum  |-> p.metadata_csum,
         opt_std_group_size     |-> (bpg = p.blocksize * ratio * 8)]

\* The superblock fields of a small filesystem with the usual features.
BaseParams ==
    [first_data_block |-> 0, blocksize |-> 1, cluster_bits |-> 0,
     clusters_per_group |-> 8, blocks_count |-> 16, desc_per_block |-> 2,
     reserved_gdt_blocks |-> 0, itb_per_group |-> 2, first_meta_bg |-> 0,
     backup_bgs |-> <<0, 0>>, sparse_super |-> TRUE, sparse_super2 |-> FALSE,
     meta_bg |-> FALSE, flex_bg |-> FALSE, gdt_csum |-> TRUE,
     metadata_csum |-> TRUE]

\* What a group's descriptor and bitmap block are at mount.
GroupKinds ==
    {"uninit",          \* never written: BLOCK_UNINIT, good descriptor checksum
     "uninit_baddesc",  \* BLOCK_UNINIT, bad descriptor checksum
     "init_good",       \* written, the block on disk matches the descriptor
     "init_badcsum",    \* written, the block on disk fails the bitmap checksum
     "init_badlayout",  \* written, the block on disk has a metadata bit clear
     "init_baddesc"}    \* written and good on disk, bad descriptor checksum

\* The blocks of group g: all of them but for the last group
GroupBlocks(g) ==
    IF g = sb.s_groups_count - 1
    THEN sb.s_blocks_count - ext4_group_first_block_no(g)
    ELSE sb.s_blocks_per_group

\* The block that lies off blocks after the start-of-group metadata of
\* group g, the blocks that mkfs keeps clear of the bitmaps and the inode
\* table: the superblock copy, the descriptor blocks and, when they leave
\* room in the group, the reserved descriptor blocks.
PlaceBlock(g, off) ==
    LET gdt  == ext4_bg_has_super(g) + ext4_bg_num_gdb(g)
        full == gdt + ext4_bg_has_super(g) * sb.s_reserved_gdt_blocks
        meta == IF full + 2 + sb.s_itb_per_group <= GroupBlocks(g) THEN full ELSE gdt
    IN  ext4_group_first_block_no(g) + meta + off

\* The blocks of group g's inode table
ItbBlocks(d) == {ext4_inode_table(d) + i : i \in 0 .. (sb.s_itb_per_group - 1)}

\* The last block of group g
GroupLastBlock(g) ==
    IF g = sb.s_groups_count - 1 THEN sb.s_blocks_count - 1
    ELSE ext4_group_first_block_no(g) + sb.s_blocks_per_group - 1

\* ext4_check_descriptors: without flex_bg the bitmaps and the inode table
\* lie inside their group, with flex_bg anywhere in the filesystem.  The
\* three do not overlap.
DescriptorAccepted(g, d) ==
    LET first == IF sb.feature_flex_bg THEN sb.s_first_data_block
                 ELSE ext4_group_first_block_no(g)
        last  == IF sb.feature_flex_bg THEN sb.s_blocks_count - 1
                 ELSE GroupLastBlock(g)
        in(b) == first <= b /\ b <= last
    IN  /\ in(ext4_block_bitmap(d))
        /\ in(ext4_inode_bitmap(d))
        /\ in(ext4_inode_table(d))
        /\ in(ext4_inode_table(d) + sb.s_itb_per_group - 1)
        /\ ext4_block_bitmap(d) # ext4_inode_bitmap(d)
        /\ ext4_block_bitmap(d) \notin ItbBlocks(d)
        /\ ext4_inode_bitmap(d) \notin ItbBlocks(d)

\* The clusters of group g that hold metadata: the base run, and the
\* clusters of the bitmap and inode table blocks that lie inside the group.
GroupMetaClusters(g, d) ==
    LET start == ext4_group_first_block_no(g)
        blks  == {b \in {ext4_block_bitmap(d), ext4_inode_bitmap(d)} \cup ItbBlocks(d) :
                     start <= b /\ b <= GroupLastBlock(g)}
    IN  (0 .. (ext4_num_base_meta_clusters(g) - 1)) \cup {EXT4_B2C(b - start) : b \in blks}

\* The block bitmap mkfs leaves for a group with no data: the metadata
\* clusters and the padding after the group's last cluster.
PristineBitmap(g, d) ==
    {i \in GroupMetaClusters(g, d) : i < BitmapBits}
        \cup (num_clusters_in_group(g) .. (BitmapBits - 1))

ClearBits(g, data) == {i \in 0 .. (num_clusters_in_group(g) - 1) : i \notin data}

\* The content of the bitmap block of group g on disk
DiskBitmap(g, d, kind) ==
    LET start == ext4_group_first_block_no(g)
    IN  IF kind = "init_badlayout"
        THEN PristineBitmap(g, d) \ {EXT4_B2C(ext4_block_bitmap(d) - start)}
        ELSE IF kind = "init_clear_ib"
        THEN PristineBitmap(g, d) \ {EXT4_B2C(ext4_inode_bitmap(d) - start)}
        ELSE IF kind = "init_clear_itb"
        THEN PristineBitmap(g, d)
                \ {EXT4_B2C(ext4_inode_table(d) + sb.s_itb_per_group - 1 - start)}
        ELSE PristineBitmap(g, d)

\* The group that holds the bitmaps and the inode table of group g: the
\* group itself, or with flex_bg and a far layout the group after it.
HomeGroup(g, lay) ==
    IF lay.far THEN (g + 1) % sb.s_groups_count ELSE g

\* The places of the bitmaps and the inode table of group g in a layout
Placement(g, lay) ==
    [bg_block_bitmap |-> PlaceBlock(HomeGroup(g, lay), lay.ob),
     bg_inode_bitmap |-> PlaceBlock(HomeGroup(g, lay), lay.oi),
     bg_inode_table  |-> PlaceBlock(HomeGroup(g, lay), lay.ot)]

\* The descriptor of group g before its counts and checksums are filled in
BlankDesc(g, lay, kind) ==
    [bg_flags_block_uninit |-> kind \in {"uninit", "uninit_baddesc"},
     bg_block_bitmap       |-> PlaceBlock(HomeGroup(g, lay), lay.ob),
     bg_inode_bitmap       |-> PlaceBlock(HomeGroup(g, lay), lay.oi),
     bg_inode_table        |-> PlaceBlock(HomeGroup(g, lay), lay.ot),
     bg_free_blocks_count  |-> 0,
     bg_free_inodes_count  |-> 1,
     bg_block_bitmap_csum  |-> {},
     bg_checksum           |-> <<>>]

\* The free count and the bitmap checksum of descriptor d for the bitmap
\* data of its group; a bad bitmap checksum differs in bit 0.  The
\* checksum field of a never-written group was not computed from any
\* bitmap: it is the checksum of no bitmap, the zeroed one included.
FillDesc(kind, d, free, csum) ==
    [d EXCEPT !.bg_free_blocks_count = free,
              !.bg_block_bitmap_csum =
                  IF ~ext4_has_metadata_csum
                  THEN {}
                  ELSE IF kind \in {"uninit", "uninit_baddesc"}
                  THEN {-1}
                  ELSE IF kind = "init_badcsum"
                  THEN (csum \ {0}) \cup ({0} \ csum)
                  ELSE csum]

\* The descriptor checksum of d; a bad one is the checksum of the
\* descriptor of the next group.
SignDesc(g, kind, d) ==
    IF ~ext4_has_group_desc_csum THEN d
    ELSE IF kind \in {"uninit_baddesc", "init_baddesc"}
    THEN [d EXCEPT !.bg_checksum = ext4_group_desc_csum(g + 1, d)]
    ELSE [d EXCEPT !.bg_checksum = ext4_group_desc_csum(g, d)]

\* The descriptor of group g at mount, for a layout (the places of the
\* bitmaps and the inode table) and a kind.
MkDesc(g, lay, kind) ==
    CHOOSE d \in
        UNION {UNION {{SignDesc(g, kind, d1) :
                         d1 \in {FillDesc(kind, d0, Cardinality(ClearBits(g, data)),
                                          ext4_block_bitmap_csum(data))}} :
                      data \in {DiskBitmap(g, d0, kind)}} :
               d0 \in {BlankDesc(g, lay, kind)}} : TRUE

\* ext4_mb_add_groupinfo: the free count a group is believed to have.
\* bb_free is an ext4_grpblk_t, a signed int: of the unsigned result of
\* ext4_free_clusters_after_init it keeps the low 32 bits, read as a signed
\* number (4294967295 is kept as -1), and percpu_counter_sub widens that.
MkGroupInfo(g, d) ==
    [bb_free |-> IF d.bg_flags_block_uninit
                 THEN S64(ext4_free_clusters_after_init(g, d).lo)
                 ELSE S64(d.bg_free_blocks_count),
     bbitmap_corrupt |-> FALSE,
     ibitmap_corrupt |-> FALSE]

\* One turn of the loop of ext4_mb_init_backend at mount: thread t adds the
\* group info of the group th[t].group, whose free count for a
\* never-written group is ext4_free_clusters_after_init, and goes on to
\* the next group.  hist.supers collects the groups found to hold a
\* superblock copy on the way (ext4_num_base_meta_clusters asks for each).
ext4_mb_add_groupinfo(t) ==
    LET g == th[t].group IN
    /\ th[t].pc = "mount"
    /\ g < ext4_get_groups_count
    /\ grp' = [grp EXCEPT ![g] = MkGroupInfo(g, gdp[g])]
    /\ th' = [th EXCEPT ![t].group = g + 1]
    /\ hist' = [hist EXCEPT !.supers = IF ext4_bg_has_super(g) = 1
                                       THEN @ \cup {g} ELSE @]
    /\ UNCHANGED <<geomVars, bh, group_lock, disk, io, cntVars, acct>>

NoBuffer ==
    [b_data |-> {}, uptodate |-> FALSE, bitmap_uptodate |-> FALSE,
     verified |-> FALSE, new |-> FALSE, lock |-> NoThread, b_count |-> 0]

ZeroCounter == [count |-> S64(0), counters |-> [c \in Threads |-> 0]]

\* No block has been located yet.
NoLocated == [block |-> -1, group |-> -1, offset |-> -1, number |-> -1, in_group |-> {}]

NoHist ==
    [calls |-> 0, located |-> NoLocated,
     granted |-> [thread |-> NoThread, n |-> 0, before |-> S64(0),
                  released |-> FALSE],
     geom_errors |-> {},
     counts |-> 0, counted |-> [total |-> -1, entry |-> {}, exit |-> {}], claims |-> 0, special_claims |-> 0,
     retry_calls |-> 0, commits |-> 0, supers |-> {},
     allocs |-> 0,
     allocated |-> [thread |-> NoThread, ret |-> 0, count |-> {}, errp |-> "OK"],
     seq |-> [t \in Threads |-> [calls |-> 0, trues |-> 0, clean |-> TRUE]],
     debits |-> [g \in Groups |-> 0], inits |-> [g \in Groups |-> 0],
     checks |-> [g \in Groups |-> 0], reads |-> [g \in Groups |-> 0]]

\* The bitmap cache after mount, once sb and gdp are set: no group is
\* marked corrupt, no bitmap is cached as a bitmap.  The buffer of a
\* written group among devcache may be up to date all the same, brought in
\* by a read of the block device, whose cache the buffers belong to; such
\* a buffer holds what the disk holds and is not marked bitmap-uptodate.
InitCache(kinds, devcache) ==
    /\ grp = [g \in Groups |-> MkGroupInfo(g, gdp[g])]
    /\ disk = [g \in Groups |-> DiskBitmap(g, gdp[g], kinds[g])]
    /\ \E cached \in SUBSET {g \in devcache : ~gdp[g].bg_flags_block_uninit} :
          bh = [g \in Groups |->
                  IF g \in cached
                  THEN [NoBuffer EXCEPT !.uptodate = TRUE, !.b_data = disk[g]]
                  ELSE NoBuffer]
    /\ group_lock = [g \in Groups |-> NoThread]
    /\ io = [g \in Groups |-> FALSE]

\* The bitmap cache, the counters and the threads after mount, once sb and
\* gdp are set.  kinds: the kind of each group.  active: the threads that
\* make calls.  calls: the calls already made.
InitRest(kinds, active, calls) ==
    /\ InitCache(kinds, IF active = {} THEN {} ELSE {0})
    /\ fcc = [ZeroCounter EXCEPT
                 !.count = S64(SumOver([g \in Groups |-> gdp[g].bg_free_blocks_count], Groups))]
    /\ dcc = ZeroCounter
    /\ fic = [ZeroCounter EXCEPT
                 !.count = S64(SumOver([g \in Groups |-> gdp[g].bg_free_inodes_count], Groups))]
    /\ acct = [s_resv_clusters |-> 0, r_blocks_count |-> 0, s_resgid_is_root |-> TRUE,
               s_journal |-> TRUE, s_mb_free_pending |-> 0,
               error_fs |-> FALSE]
    /\ th = [t \in Threads |-> [IdleThread EXCEPT !.active = (t \in active)]]
    /\ hist = [NoHist EXCEPT !.calls = calls]

(***************************************************************************)
(* ext4_count_free_clusters, lines 860-872 (EXT4FS_DEBUG is not defined):  *)
(* the loop over the groups, one group at a step.                          *)
(***************************************************************************)
MaxCounts == 2

\* The groups marked block-bitmap-corrupt
CorruptGroups == {g \in Groups : EXT4_MB_GRP_BBITMAP_CORRUPT(g)}

\* line 860: desc_count = 0, i = 0
CountEnter(t) ==
    /\ th[t].pc = "idle"
    /\ th[t].active
    /\ hist.counts < MaxCounts
    /\ hist' = [hist EXCEPT !.counts = @ + 1,
                            !.counted = [total |-> -1, entry |-> CorruptGroups,
                                          exit |-> {}]]
    /\ th' = [th EXCEPT ![t].pc = "count", ![t].group = 0, ![t].n = 0,
                        ![t].op = "none", ![t].ret = "none"]
    /\ UNCHANGED <<geomVars, bitmapVars, cntVars, acct>>

\* A pass of the loop that adds the count of every group with a descriptor
CountGroupAll(t) ==
    LET i == th[t].group
    IN
    /\ th[t].pc = "count"
    /\ i < ext4_get_groups_count
    /\ th' = [th EXCEPT ![t].group = i + 1,
                        ![t].n = IF ~ext4_get_group_desc(i) THEN @
                                 ELSE @ + gdp[i].bg_free_blocks_count]
    /\ acct' = IF ~ext4_get_group_desc(i) THEN ext4_error(acct) ELSE acct
    /\ UNCHANGED <<geomVars, bitmapVars, cntVars, hist>>

\* lines 861-869: one pass of the loop.  A group without a descriptor is
\* skipped (ext4_get_group_desc has called ext4_error); the free count of
\* the descriptor is added when there is no group info or the group is not
\* marked block-bitmap-corrupt (grp[i] without group info has the flag
\* clear, so the one test stands for both).
CountGroup(t) ==
    LET i == th[t].group
    IN
    /\ th[t].pc = "count"
    /\ i < ext4_get_groups_count
    /\ th' = [th EXCEPT ![t].group = i + 1,
                        ![t].n = IF ~ext4_get_group_desc(i) THEN @
                                 ELSE IF ~EXT4_MB_GRP_BBITMAP_CORRUPT(i)
                                 THEN @ + gdp[i].bg_free_blocks_count
                                 ELSE @]
    /\ acct' = IF ~ext4_get_group_desc(i) THEN ext4_error(acct) ELSE acct
    /\ UNCHANGED <<geomVars, bitmapVars, cntVars, hist>>

\* line 872: return desc_count
CountReturn(t) ==
    /\ th[t].pc = "count"
    /\ th[t].group >= ext4_get_groups_count
    /\ hist' = [hist EXCEPT !.counted.total = th[t].n,
                            !.counted.exit = CorruptGroups]
    /\ Return(t, "count", "OK", "idle")
    /\ UNCHANGED <<geomVars, bitmapVars, cntVars, acct>>

(***************************************************************************)
(* The bitmap cache under concurrent callers: two groups with the usual    *)
(* layout, each of any kind; two threads.                                  *)
(***************************************************************************)
UsualLayout == [ob |-> 0, oi |-> 1, ot |-> 2, far |-> FALSE]

\* The kinds of the groups after the first
OtherKinds == {"uninit", "init_good"}

Init ==
    /\ sb = MkSb(BaseParams)
    /\ \E kinds \in [Groups -> GroupKinds] :
          /\ \A g \in Groups \ {0} : kinds[g] \in OtherKinds
          /\ \A g \in Groups : DescriptorAccepted(g, Placement(g, UsualLayout))
          /\ gdp = [g \in Groups |-> MkDesc(g, UsualLayout, kinds[g])]
          /\ InitRest(kinds, Threads, 0)

BitmapStep(t) ==
    \/ \E g \in 0 .. sb.s_groups_count, ok \in BOOLEAN : NowaitEnter(t, g, ok)
    \/ NowaitLockBuffer(t)
    \/ NowaitLockGroup(t)
    \/ NowaitInit(t)
    \/ NowaitInitSub(t)
    \/ NowaitInitSet(t)
    \/ NowaitInitInodes(t)
    \/ NowaitInitInodeSet(t)
    \/ NowaitSetBitmapUptodate(t)
    \/ NowaitSetBufferUptodate(t)
    \/ NowaitInitUnlockGroup(t)
    \/ NowaitInitUnlockBuffer(t)
    \/ NowaitInitError(t)
    \/ NowaitRead(t)
    \/ NowaitReadUptodate(t)
    \/ NowaitReadUnlock(t)
    \/ NowaitReadSubmit(t)
    \/ ValidateVerified(t)
    \/ ValidateCorrupt(t)
    \/ ValidateLock(t)
    \/ ValidateCheck(t)
    \/ ValidateFail(t)
    \/ ValidateFailSub(t)
    \/ ValidateFailSet(t)
    \/ WaitEnter(t, th[t].group)
    \/ WaitOnBuffer(t)
    \/ WaitUptodate(t)
    \/ PutBh(t)

Next ==
    \/ \E t \in Threads : BitmapStep(t)
    \/ \E g \in Groups, uptodate \in BOOLEAN : ext4_end_bitmap_read(g, uptodate)

Spec == Init /\ [][Next]_vars

\* The bitmap cache with one thread that acquires bitmaps and one that
\* counts the free clusters.
CountStep(t) ==
    \/ CountEnter(t)
    \/ CountGroup(t)
    \/ CountReturn(t)

NextCount ==
    \/ BitmapStep("t1")
    \/ \E g \in Groups, uptodate \in BOOLEAN : ext4_end_bitmap_read(g, uptodate)
    \/ CountStep("t2")

SpecCount == Init /\ [][NextCount]_vars

\* The descriptor lookup over its inputs: a filesystem of two groups with
\* one descriptor to a block, hence two descriptor blocks, both loaded or
\* the second one missing.  ext4_fill_super loads every descriptor block,
\* so s_group_desc[1] = NULL is an input drawn for the test of line 340,
\* not a state mount leaves.  The group numbers asked for run to the one
\* past the last group.
InitDesc ==
    \E loaded \in {{0, 1}, {0}} :
       /\ sb = [MkSb([BaseParams EXCEPT !.desc_per_block = 1]) EXCEPT
                  !.s_group_desc = loaded]
       /\ \E kinds \in [Groups -> {"uninit", "uninit_baddesc", "init_good", "init_badcsum"}] :
             /\ \A g \in Groups \ {0} : kinds[g] \in OtherKinds
             /\ {g \in Groups : ~DescriptorAccepted(g, Placement(g, UsualLayout))} = {}
             /\ gdp = [g \in Groups |-> MkDesc(g, UsualLayout, kinds[g])]
             /\ InitRest(kinds, Threads, 0)

\* The bitmap cache with callers that also call ext4_wait_block_bitmap
\* themselves, with the buffer they hold and any group number.
NextDesc ==
    \/ \E t \in Threads : BitmapStep(t)
    \/ \E t \in Threads, g \in 0 .. sb.s_groups_count : WaitEnter(t, g)
    \/ \E g \in Groups, uptodate \in BOOLEAN : ext4_end_bitmap_read(g, uptodate)

SpecDesc == InitDesc /\ [][NextDesc]_vars

\* The bitmap cache with one thread that acquires bitmaps and one that
\* allocates metadata blocks: without a flag, from the root reserve, from
\* the reserved pool, for a delayed allocation.
NextAlloc ==
    \/ BitmapStep("t1")
    \/ \E g \in Groups, uptodate \in BOOLEAN : ext4_end_bitmap_read(g, uptodate)
    \/ \E count \in {{}} \cup {{n} : n \in 1 .. MaxWant},
          flags \in {{}, {"EXT4_MB_USE_ROOT_BLOCKS"}, {"EXT4_MB_USE_RESERVED"},
                     {"EXT4_MB_DELALLOC_RESERVED"}} :
          ext4_new_meta_blocks("t2", count, flags, NoCred)
    \/ MbClaim("t2")
    \/ ClaimCheck("t2")
    \/ ClaimAdd("t2")
    \/ MbClaimed("t2")
    \/ MbAllocate("t2")
    \/ MbAccount("t2")
    \/ NewMetaReturn("t2")

\* The state after mount for the allocating thread: as Init, with a root
\* reserve of none or of four clusters, so that a claim can be refused,
\* and with three of the kinds for group 0.
InitAlloc ==
    /\ sb = MkSb(BaseParams)
    /\ \E kinds \in [Groups -> GroupKinds], r \in {0, 4} :
          /\ kinds[0] \in {"uninit_baddesc", "init_good", "init_badcsum"}
          /\ \A g \in Groups \ {0} : kinds[g] \in OtherKinds
          /\ \A g \in Groups : DescriptorAccepted(g, Placement(g, UsualLayout))
          /\ gdp = [g \in Groups |-> MkDesc(g, UsualLayout, kinds[g])]
          /\ InitCache(kinds, {0})
          /\ fcc = [ZeroCounter EXCEPT
                       !.count = S64(SumOver([g \in Groups |-> gdp[g].bg_free_blocks_count], Groups))]
          /\ dcc = ZeroCounter
          /\ fic = [ZeroCounter EXCEPT
                       !.count = S64(SumOver([g \in Groups |-> gdp[g].bg_free_inodes_count], Groups))]
          /\ acct = [s_resv_clusters |-> 0, r_blocks_count |-> r, s_resgid_is_root |-> TRUE,
                     s_journal |-> TRUE, s_mb_free_pending |-> 0,
                     error_fs |-> FALSE]
          /\ th = [t \in Threads |-> [IdleThread EXCEPT !.active = TRUE]]
          /\ hist = NoHist

SpecAlloc == InitAlloc /\ [][NextAlloc]_vars

(***************************************************************************)
(* The bitmap cache over many geometries and layouts: one thread makes one *)
(* acquire (and the wait that follows) on a filesystem of three groups,    *)
(* the last one short.                                                     *)
(***************************************************************************)
\* The largest offset of a bitmap or inode table from the start-of-group
\* metadata
MaxOff == 4

\* The reserved descriptor blocks: none, or more than a group holds
ManyReservedGdt == 7

\* The blocks of the last group
LastGroupBlocks == 6

Layouts ==
    {[ob |-> ob, oi |-> oi, ot |-> ot, far |-> far] :
        ob \in 0 .. MaxOff, oi \in 0 .. MaxOff, ot \in 0 .. MaxOff, far \in BOOLEAN}

\* The kinds of SpecLayout's groups: those of GroupKinds but the written
\* group with a bad descriptor checksum, and two more bad layouts.
InitLayout ==
    \E p \in {[BaseParams EXCEPT
                  !.cluster_bits = cb,
                  !.blocks_count = 2 * (8 * Pow2(cb)) + LastGroupBlocks,
                  !.reserved_gdt_blocks = rg,
                  !.flex_bg = fb] :
                 cb \in {0, 1}, rg \in {0, ManyReservedGdt}, fb \in BOOLEAN},
       lay \in Layouts,
       kind \in {"uninit", "uninit_baddesc", "init_good", "init_badcsum",
                 "init_badlayout",
                 "init_clear_ib",    \* written, the inode bitmap's bit is clear
                 "init_clear_itb"} : \* written, the inode table's last bit is clear
        /\ sb = MkSb(p)
        /\ lay.far => p.flex_bg
        /\ \A g \in Groups : DescriptorAccepted(g, Placement(g, lay))
        /\ gdp = [g \in Groups |-> MkDesc(g, lay, kind)]
        /\ InitRest([g \in Groups |-> kind], {"t1"}, MaxCalls - 1)

SpecLayout == InitLayout /\ [][Next]_vars

(***************************************************************************)
(* Groups whose synthesis fails or not, under one caller that makes        *)
(* several calls: the reserved descriptor blocks of group 0, the only      *)
(* group with a superblock copy (sparse_super2 without backups), fit the   *)
(* bitmap block or not; all groups are never written, with good or bad     *)
(* descriptor checksums, or written; with and without flex_bg, with        *)
(* metadata_csum or with gdt_csum alone.                                   *)
(***************************************************************************)
InitSynth ==
    \E rg \in {0, ManyReservedGdt}, fb \in BOOLEAN, mc \in BOOLEAN,
       kind \in {"uninit", "uninit_baddesc", "init_good", "init_badcsum"} :
        /\ sb = MkSb([BaseParams EXCEPT !.reserved_gdt_blocks = rg,
                                        !.sparse_super2 = TRUE,
                                        !.flex_bg = fb,
                                        !.metadata_csum = mc])
        /\ {g \in Groups : ~DescriptorAccepted(g, Placement(g, UsualLayout))} = {}
        /\ gdp = [g \in Groups |-> MkDesc(g, UsualLayout, kind)]
        /\ InitRest([g \in Groups |-> kind], {"t1"}, 0)

SpecSynth == InitSynth /\ [][Next]_vars

(***************************************************************************)
(* The accountant under concurrent claimers: the free counter and the      *)
(* reserves are fixed, two threads claim.                                  *)
(***************************************************************************)
InitAcct ==
    /\ sb = MkSb(BaseParams)
    /\ gdp = [g \in Groups |-> MkDesc(g, UsualLayout, "init_good")]
    /\ InitCache([g \in Groups |-> "init_good"], {})
    \* The free clusters f: a few, and enough for the approximate counters
    \* to do; fd: the part of them that lies in the local counter of a cpu.
    /\ \E f \in {2, 20}, fd \in {-1, 0, 1} :
          fcc = [count |-> S64(f - fd),
                 counters |-> [c \in Threads |-> IF c = "t1" THEN fd ELSE 0]]
    /\ dcc = ZeroCounter
    /\ fic = ZeroCounter
    \* Who may use the root reserve matters only when there is one
    /\ \E rc \in {0, 1}, rb \in {0, 1}, gr \in BOOLEAN :
          /\ (rb = 0 => gr)
          /\ acct = [s_resv_clusters |-> rc, r_blocks_count |-> rb,
                     s_resgid_is_root |-> gr,
                     s_journal |-> TRUE, s_mb_free_pending |-> 0,
                     error_fs |-> FALSE]
    /\ th = [t \in Threads |-> IdleThread]
    /\ hist = NoHist

\* The callers: an ordinary one, one with each flag and with both, the
\* reserved uid, a member of the reserved group, a holder of
\* CAP_SYS_RESOURCE, and the reserved uid with the use-reserved-pool flag
NextAcct ==
    \/ \E t \in Threads, n \in 1 .. MaxWant,
          c \in {[flags |-> f, cred |-> NoCred] :
                    f \in SUBSET {"EXT4_MB_USE_ROOT_BLOCKS", "EXT4_MB_USE_RESERVED"}}
                \cup {[flags |-> {}, cred |-> [NoCred EXCEPT !.fsuid_is_resuid = TRUE]],
                      [flags |-> {}, cred |-> [NoCred EXCEPT !.in_group_resgid = TRUE]],
                      [flags |-> {}, cred |-> [NoCred EXCEPT !.cap_sys_resource = TRUE]],
                      [flags |-> {"EXT4_MB_USE_RESERVED"},
                       cred |-> [NoCred EXCEPT !.fsuid_is_resuid = TRUE]]} :
          ClaimEnter(t, n, c.flags, c.cred)
    \/ \E t \in Threads : ClaimCheck(t)
    \/ \E t \in Threads : ClaimAdd(t)

SpecAcct == InitAcct /\ [][NextAcct]_vars

\* The accountant with claims released by their callers.
NextRelease ==
    \/ NextAcct
    \/ \E cpu \in Threads : release(cpu)

\* The accountant's initial states without reserves: what a release does
\* to the dirty counter does not depend on them.
InitRelease ==
    /\ InitAcct
    /\ acct.s_resv_clusters = 0
    /\ acct.r_blocks_count = 0
    /\ acct.s_resgid_is_root

SpecRelease == InitRelease /\ [][NextRelease]_vars

(***************************************************************************)
(* The retry protocol: callers that were refused space ask whether to try  *)
(* again, while an ordinary caller claims.                                 *)
(***************************************************************************)
InitRetry ==
    /\ sb = MkSb(BaseParams)
    /\ gdp = [g \in Groups |-> MkDesc(g, UsualLayout, "init_good")]
    /\ InitCache([g \in Groups |-> "init_good"], {})
    \* The free clusters: none, a few, and enough for the approximate counters
    /\ \E f \in {0, 2, 20} : fcc = [ZeroCounter EXCEPT !.count = S64(f)]
    /\ dcc = ZeroCounter
    /\ fic = ZeroCounter
    /\ \E rb \in {0, 1}, j \in BOOLEAN, fp \in {0, 1} :
          /\ (fp # 0 => j)
          /\ acct = [s_resv_clusters |-> 0, r_blocks_count |-> rb,
                     s_resgid_is_root |-> TRUE,
                     s_journal |-> j, s_mb_free_pending |-> fp,
                     error_fs |-> FALSE]
    /\ th = [t \in Threads |-> IdleThread]
    /\ hist = NoHist

\* Both threads ask whether to try again; one of them also claims.
NextRetry ==
    \/ \E t \in Threads, cred \in {NoCred, [NoCred EXCEPT !.cap_sys_resource = TRUE]} :
          RetryEnter(t, cred)
    \/ \E t \in Threads : RetryCheck(t)
    \/ \E t \in Threads : RetryCommit(t)
    \/ \E t \in Threads : RetryReset(t)
    \/ ClaimEnter("t2", 1, {}, NoCred)
    \/ ClaimCheck("t2")
    \/ ClaimAdd("t2")
    \/ FreePending

SpecRetry == InitRetry /\ [][NextRetry]_vars

(***************************************************************************)
(* The layout calculator over many geometries: the group infos are made at *)
(* mount, group after group.                                               *)
(***************************************************************************)
\* The blocks of the last group of the small filesystems
ShortGroupBlocks == 4

\* Filesystems of 64 groups without meta_bg: a descriptor block holds 32
\* descriptors; sparse_super or not, sparse_super2 with the backups in
\* groups 1 and 63 or not, one reserved descriptor block or none.
ManyGroupParams ==
    {[BaseParams EXCEPT !.cluster_bits = cb,
                        !.blocks_count = 64 * (8 * Pow2(cb)),
                        !.desc_per_block = 32,
                        !.sparse_super = ss,
                        !.sparse_super2 = ss2,
                        !.backup_bgs = IF ss2 THEN <<1, 63>> ELSE <<0, 0>>,
                        !.reserved_gdt_blocks = rg,
                        !.flex_bg = fb] :
        cb \in {0, 1}, ss \in BOOLEAN, ss2 \in BOOLEAN, fb \in BOOLEAN, rg \in {0, 1}}
    \* Filesystems of 64 groups with meta_bg: a descriptor block holds 4
    \* descriptors, the first 0, 1 or 2 meta-groups keep the old layout.
    \cup
    {[BaseParams EXCEPT !.cluster_bits = cb,
                        !.blocks_count = 64 * (8 * Pow2(cb)),
                        !.desc_per_block = 4,
                        !.meta_bg = TRUE,
                        !.first_meta_bg = fm,
                        !.reserved_gdt_blocks = rg,
                        !.sparse_super = ss] :
        cb \in {0, 1}, fm \in 0 .. 2, ss \in BOOLEAN, rg \in {0, 1}}

\* Filesystems of three groups, the last one short
ShortParams ==
    {[BaseParams EXCEPT !.cluster_bits = cb,
                        !.blocks_count = 2 * (8 * Pow2(cb)) + ShortGroupBlocks,
                        !.flex_bg = fb] :
        cb \in {0, 1}, fb \in BOOLEAN}

InitGeom ==
    \E p \in ManyGroupParams \cup ShortParams,
       lay \in Layouts,
       kind \in {"uninit", "init_good"} :   \* all never written, or all written
        /\ sb = MkSb(p)
        /\ lay.far => p.flex_bg
        /\ p \notin ShortParams => lay = UsualLayout
        /\ {g \in Groups : ~DescriptorAccepted(g, Placement(g, lay))} = {}
        /\ gdp = [g \in Groups |-> MkDesc(g, lay, kind)]
        \* no group info yet: ext4_mb_init_backend has not reached the groups
        /\ grp = [g \in Groups |-> [bb_free |-> S64(0), bbitmap_corrupt |-> FALSE,
                                     ibitmap_corrupt |-> FALSE]]
        /\ bh = [g \in Groups |-> NoBuffer]
        /\ group_lock = [g \in Groups |-> NoThread]
        /\ disk = [g \in Groups |-> DiskBitmap(g, gdp[g], kind)]
        /\ io = [g \in Groups |-> FALSE]
        /\ fcc = [ZeroCounter EXCEPT
                     !.count = S64(SumUpTo([g \in Groups |-> gdp[g].bg_free_blocks_count],
                                           sb.s_groups_count))]
        /\ dcc = ZeroCounter
        /\ fic = [ZeroCounter EXCEPT
                     !.count = S64(SumUpTo([g \in Groups |-> gdp[g].bg_free_inodes_count],
                                           sb.s_groups_count))]
        /\ acct = [s_resv_clusters |-> 0, r_blocks_count |-> 0,
                   s_resgid_is_root |-> TRUE,
                   s_journal |-> TRUE, s_mb_free_pending |-> 0,
                   error_fs |-> FALSE]
        /\ th = [t \in Threads |->
                    IF t = "t1" THEN [IdleThread EXCEPT !.pc = "mount", !.group = 0]
                    ELSE [IdleThread EXCEPT !.active = FALSE]]
        /\ hist = NoHist

NextGeom == \E t \in Threads : ext4_mb_add_groupinfo(t)

SpecGeom == InitGeom /\ [][NextGeom]_vars

(***************************************************************************)
(* The group locator on filesystems of three groups.  The first data block *)
(* is 0 or 1; a block has 1 or 2 bytes, a cluster 1 or 2 blocks; a group   *)
(* has as many clusters as its bitmap block has bits (the standard group   *)
(* size) or fewer.                                                         *)
(***************************************************************************)
LocateLastBlocks == 5

InitLocate ==
    \E p \in {[BaseParams EXCEPT
                  !.first_data_block = fdb,
                  !.blocksize = bs,
                  !.cluster_bits = cb,
                  !.clusters_per_group = cpg,
                  !.desc_per_block = 4,
                  !.blocks_count = fdb + 2 * (cpg * Pow2(cb)) + LocateLastBlocks] :
                 fdb \in {0, 1}, bs \in {1, 2}, cb \in {0, 1}, cpg \in {6, 8, 16}} :
        /\ p.clusters_per_group <= p.blocksize * 8
        /\ sb = MkSb(p)
        /\ {g \in Groups : ~DescriptorAccepted(g, Placement(g, UsualLayout))} = {}
        /\ gdp = [g \in Groups |-> MkDesc(g, UsualLayout, "init_good")]
        /\ InitRest([g \in Groups |-> "init_good"], {}, 0)

\* A caller locates a block of the filesystem: ext4_get_group_no_and_offset
\* with both result pointers, ext4_get_group_number, and
\* ext4_block_in_group against every group number.
LocateBlock(block) ==
    /\ hist' = [hist EXCEPT !.located =
                    [block    |-> block,
                     group    |-> ext4_get_group_no_and_offset(block).group,
                     offset   |-> ext4_get_group_no_and_offset(block).offset,
                     number   |-> ext4_get_group_number(block),
                     in_group |-> {g \in 0 .. sb.s_groups_count :
                                      ext4_block_in_group(block, g)}]]
    /\ UNCHANGED <<geomVars, bitmapVars, cntVars, acct, th>>

NextLocate == \E block \in sb.s_first_data_block .. (sb.s_blocks_count - 1) : LocateBlock(block)

SpecLocate == InitLocate /\ [][NextLocate]_vars

(***************************************************************************)
(* Properties of the bitmap cache                                          *)
(***************************************************************************)
\* Thread t returns from a call in this step.
Returns(t) == th'[t].done # th[t].done

\* Thread t takes a step of a call of acquire or wait (not the put of the
\* buffer that follows a call).
CallStep(t) ==
    /\ th'[t] # th[t]
    /\ ~(th[t].pc \in {"have_bh", "waited"} /\ th'[t].pc = "idle")

DescCsumGood(g) == ext4_group_desc_csum_verify(g, gdp[g])

\* C2: for every group, the group's cached free count is subtracted from
\* the free-cluster counter at most once, and exactly once if the group is
\* marked block-bitmap-corrupt.
C2_DebitedOnce ==
    \A g \in Groups :
        /\ hist.debits[g] <= 1
        /\ (grp[g].bbitmap_corrupt => hist.debits[g] = 1)

\* C3: once a group's block-bitmap-corrupt flag is set no step clears it,
\* and every call of acquire or wait on the group that starts afterwards
\* returns a corruption error, submits no disk read and leaves the
\* free-cluster counter alone.
C3_CorruptTerminal ==
    [][/\ \A g \in Groups : grp[g].bbitmap_corrupt => grp'[g].bbitmap_corrupt
       /\ \A t \in Threads :
             (CallStep(t) /\ th'[t].entry_corrupt)
                => /\ fcc' = fcc
                   /\ hist'.reads = hist.reads
                   /\ (Returns(t) =>
                          th'[t].ret \in {"EFSCORRUPTED", "EFSBADCRC", "ENOMEM"})]_vars

\* The free clusters counted at mount
FreeAtMount == SumOver([g \in Groups |-> gdp[g].bg_free_blocks_count], Groups)

\* Thread t returns in this step from an acquire that got the buffer of a
\* group whose descriptor fails its checksum.
AcquireReturnsBadDesc(t) ==
    /\ Returns(t)
    /\ th'[t].op = "nowait"
    /\ th'[t].group \in Groups
    /\ th'[t].ret # "ENOMEM"
    /\ ~DescCsumGood(th'[t].group)

\* What C9 promises of the group g of such an acquire: marked corrupt, one
\* debit, a corruption error, no synthesis, no disk read.
BadDescOutcome(t, g) ==
    /\ grp'[g].bbitmap_corrupt
    /\ hist'.debits[g] = 1
    /\ hist'.inits[g] = 0
    /\ hist'.reads[g] = 0
    /\ th'[t].ret \in {"EFSBADCRC", "EFSCORRUPTED"}

\* C8: the bitmap of a never-written group is synthesized at most once,
\* and once it is, no caller overwrites the buffer.
C8_SingleSynthesis ==
    [][\A g \in Groups :
          (gdp[g].bg_flags_block_uninit /\ hist.inits[g] >= 1)
             => /\ hist'.inits[g] = hist.inits[g]
                /\ bh'[g].b_data = bh[g].b_data]_vars

\* C8 witness: both threads hold the buffer of the same never-written
\* group, which was synthesized once.
C8_Witness ==
    \E g \in Groups :
        /\ gdp[g].bg_flags_block_uninit
        /\ hist.inits[g] = 1
        /\ hist.calls = 2
        /\ \A t \in Threads : th[t].pc = "have_bh" /\ th[t].group = g

\* C9 as stated: every acquire on a group whose descriptor fails its
\* checksum, flagged uninitialized or not, leaves the group corrupt and
\* debited once, returns a corruption error, synthesizes nothing and
\* submits no read.
C9_AnyBadDesc ==
    [][\A t \in Threads :
          AcquireReturnsBadDesc(t) => BadDescOutcome(t, th'[t].group)]_vars

\* C9 amended: the same for the groups flagged block-bitmap-uninitialized;
\* the acquire that sets the flag (it returns from line 556) returns the
\* checksum error and the free counter has lost the group's believed free
\* count, the other ones return the corruption error.
C9_UninitBadDesc ==
    [][\A t \in Threads :
          (AcquireReturnsBadDesc(t) /\ gdp[th'[t].group].bg_flags_block_uninit)
             => LET g == th'[t].group IN
                /\ BadDescOutcome(t, g)
                /\ th'[t].ret = IF th[t].pc = "init_error"
                                THEN "EFSBADCRC" ELSE "EFSCORRUPTED"
                /\ ((\A h \in Groups \ {g} : ~grp'[h].bbitmap_corrupt)
                      => percpu_counter_sum(fcc') = s64_sub(S64(FreeAtMount), grp[g].bb_free))]_vars

\* C9 witness: an acquire has returned the checksum error for a group
\* flagged uninitialized whose descriptor fails its checksum.
C9_Witness ==
    \E t \in Threads :
        /\ th[t].op = "nowait" /\ th[t].ret = "EFSBADCRC" /\ th[t].pc = "idle"
        /\ th[t].group \in Groups
        /\ gdp[th[t].group].bg_flags_block_uninit
        /\ ~DescCsumGood(th[t].group)
        /\ grp[th[t].group].bbitmap_corrupt

\* C10: the checksum and layout checks of a group's bitmap buffer are made
\* at most once, and the verified marker is never cleared.
C10_ValidatedOnce ==
    [][\A g \in Groups :
          /\ hist'.checks[g] <= 1
          /\ (bh[g].verified => bh'[g].verified)]_vars

\* The base metadata clusters of group g fit in the bitmap block (line 232)
BaseFits(g) == (ext4_num_base_meta_clusters(g) \div 8) < sb.s_blocksize

\* Thread t returns in this step from an acquire that got the buffer of a
\* never-written group whose descriptor passes its checksum.
AcquireReturnsUninit(t) ==
    /\ Returns(t)
    /\ th'[t].op = "nowait"
    /\ th'[t].group \in Groups
    /\ th'[t].ret # "ENOMEM"
    /\ gdp[th'[t].group].bg_flags_block_uninit
    /\ DescCsumGood(th'[t].group)

\* The acquire of t on group g has round-tripped: the buffer is returned
\* verified, its content passes the checksum and the layout check, the
\* group is not marked corrupt.
RoundTrip(t, g) ==
    /\ th'[t].ret = "bh"
    /\ bh'[g].verified
    /\ ValidateChecks(gdp'[g], g, bh'[g].b_data) = "OK"
    /\ ~grp'[g].bbitmap_corrupt

\* C4 as stated: for every never-written group whose descriptor passes its
\* checksum, the synthesized bitmap passes validation and acquire returns
\* a verified buffer, the group not marked corrupt.
C4_RoundTripAlways ==
    [][\A t \in Threads :
          AcquireReturnsUninit(t) => RoundTrip(t, th'[t].group)]_vars

\* C4 amended: the same for the groups whose base metadata clusters fit in
\* the bitmap block.
C4_RoundTripWhenFits ==
    [][\A t \in Threads :
          (AcquireReturnsUninit(t) /\ BaseFits(th'[t].group))
             => RoundTrip(t, th'[t].group)]_vars

\* C4 witness: an acquire has returned the verified buffer of a
\* never-written group, synthesized in this call.
C4_Witness ==
    \E t \in Threads :
        /\ th[t].pc = "have_bh" /\ th[t].ret = "bh"
        /\ gdp[th[t].group].bg_flags_block_uninit
        /\ hist.inits[th[t].group] = 1
        /\ hist.checks[th[t].group] = 1
        /\ bh[th[t].group].verified

\* C5: the bits set among the clusters of a group in its synthesized
\* bitmap are as many as the overhead clusters of the group, and the clear
\* ones as many as the free clusters of the pristine group.
C5_OverheadMatches ==
    \A g \in Groups :
        (gdp[g].bg_flags_block_uninit /\ hist.inits[g] = 1 /\ BaseFits(g))
           => /\ Cardinality({i \in bh[g].b_data : i < num_clusters_in_group(g)})
                    = ext4_num_overhead_clusters(g, gdp[g])
              /\ S64(Cardinality(ClearBits(g, bh[g].b_data)))
                    = ext4_free_clusters_after_init(g, gdp[g])

\* The clusters of group g that validation is to find set: those of the
\* block bitmap, of the inode bitmap and of every block of the inode table.
LayoutClusters(g, d) ==
    LET start == ext4_group_first_block_no(g)
    IN  {EXT4_B2C(b - start) :
            b \in {ext4_block_bitmap(d), ext4_inode_bitmap(d)} \cup ItbBlocks(d)}

\* Thread t makes the checks of validate on group g in this step.
ChecksMade(t, g) ==
    /\ th[t].pc = "v_check"
    /\ th[t].group = g
    /\ th'[t] # th[t]

\* C11: without flexible groups, a bitmap that passes its checksum and has
\* the bit of the block bitmap's cluster, of the inode bitmap's cluster or
\* of any cluster of the inode table clear fails validation with the
\* layout error and is not marked verified; with flexible groups only the
\* checksum check can fail.
C11_LayoutChecked ==
    [][\A t \in Threads, g \in Groups :
          ChecksMade(t, g)
             => /\ (/\ ~sb.feature_flex_bg
                    /\ ext4_block_bitmap_csum_verify(gdp[g], bh[g].b_data)
                    /\ \E c \in LayoutClusters(g, gdp[g]) : c \notin bh[g].b_data)
                      => /\ th'[t].pc = "v_fail"
                         /\ th'[t].err = "EFSCORRUPTED"
                         /\ ~bh'[g].verified
                /\ (sb.feature_flex_bg /\ th'[t].pc = "v_fail")
                      => th'[t].err = "EFSBADCRC"]_vars

\* The last read submitted for the bitmap of group g has failed: the buffer
\* is marked new, no read is in flight, the buffer is not up to date.
ReadFailed(g) == bh[g].new /\ ~io[g] /\ ~bh[g].uptodate

\* C12: while the read of a group's bitmap has failed, the group is not
\* marked corrupt and the buffer is neither up to date nor verified; a
\* wait that returns then returns the I/O error and leaves the buffer and
\* the group as they are; an acquire that returns then has got the buffer
\* and submitted a new read.
C12_ReadFailureRetried ==
    [][\A g \in Groups :
          ReadFailed(g)
             => /\ ~grp[g].bbitmap_corrupt
                /\ ~bh[g].bitmap_uptodate
                /\ ~bh[g].verified
                /\ \A t \in Threads :
                      (Returns(t) /\ th'[t].group = g)
                         => \/ /\ th'[t].op = "wait"
                               /\ th'[t].ret = "EIO"
                               /\ grp' = grp
                               /\ ~bh'[g].uptodate /\ ~bh'[g].verified
                            \/ /\ th'[t].op = "nowait"
                               /\ th'[t].ret = "ENOMEM"
                               /\ UNCHANGED <<grp, bh, hist.reads>>
                            \/ /\ th'[t].op = "nowait"
                               /\ th'[t].ret = "bh"
                               /\ io'[g]
                               /\ hist'.reads[g] = hist.reads[g] + 1]_vars

\* C12 witness: a wait has returned the I/O error for a group, and the
\* read that a later acquire has submitted for it has brought the bitmap in.
C12_Witness ==
    \E t \in Threads, g \in Groups :
        /\ th[t].op = "wait" /\ th[t].ret = "EIO" /\ th[t].group = g
        /\ hist.reads[g] = 2
        /\ bh[g].uptodate
        /\ ~grp[g].bbitmap_corrupt

(***************************************************************************)
(* Properties of the accountant                                            *)
(***************************************************************************)
\* The root reserve in clusters
RootReserved == acct.r_blocks_count \div Pow2(sb.s_cluster_bits)

\* C1: while only ordinary callers (unprivileged, no flags) claim, dirty
\* plus the root reserve plus the reserved clusters never exceeds free.
C1_NoOvercommit ==
    hist.special_claims = 0
       => s64_le(s64_add(percpu_counter_sum(dcc),
                         S64(RootReserved + acct.s_resv_clusters)),
                 percpu_counter_sum(fcc))

\* Thread t takes a step of a call of claim.
ClaimStepOf(t) ==
    /\ th'[t] # th[t]
    /\ (th[t].pc \in {"c_check", "c_add"} \/ th'[t].pc = "c_check")

\* The values of free and dirty the decision of thread t is made on: the
\* sums when the approximate values it has read are near the limit.
UsedFree(t) ==
    IF HasFreeNearLimit(th[t].free, th[t].dirty, th[t].n)
    THEN percpu_counter_sum_positive(fcc) ELSE th[t].free

UsedDirty(t) ==
    IF HasFreeNearLimit(th[t].free, th[t].dirty, th[t].n)
    THEN percpu_counter_sum_positive(dcc) ELSE th[t].dirty

\* The caller is privileged as the claim has it: reserved uid, member of
\* the reserved gid, elevated-resource capability, or the use-root-reserve
\* flag.
PrivilegedAnyGid(flags, cred) ==
    \/ cred.fsuid_is_resuid
    \/ cred.in_group_resgid
    \/ cred.cap_sys_resource
    \/ "EXT4_MB_USE_ROOT_BLOCKS" \in flags

\* The decision ladder of has_capacity as the claim has it
LadderAllowsAnyGid(free, dirty, want, flags, cred) ==
    \/ s64_le(s64_add(S64(want + RootReserved + acct.s_resv_clusters), dirty), free)
    \/ (PrivilegedAnyGid(flags, cred)
          /\ s64_le(s64_add(S64(want + acct.s_resv_clusters), dirty), free))
    \/ ("EXT4_MB_USE_RESERVED" \in flags /\ s64_le(s64_add(S64(want), dirty), free))

\* The caller is privileged: reserved uid, member of the reserved gid when
\* the reserved gid is not the root group, elevated-resource capability,
\* or the use-root-reserve flag.
Privileged(flags, cred) ==
    \/ cred.fsuid_is_resuid
    \/ (cred.in_group_resgid /\ ~acct.s_resgid_is_root)
    \/ cred.cap_sys_resource
    \/ "EXT4_MB_USE_ROOT_BLOCKS" \in flags

\* The decision ladder of has_capacity
LadderAllows(free, dirty, want, flags, cred) ==
    \/ s64_le(s64_add(S64(want + RootReserved + acct.s_resv_clusters), dirty), free)
    \/ (Privileged(flags, cred)
          /\ s64_le(s64_add(S64(want + acct.s_resv_clusters), dirty), free))
    \/ ("EXT4_MB_USE_RESERVED" \in flags /\ s64_le(s64_add(S64(want), dirty), free))

\* C6: the capacity check allows exactly what the decision ladder allows
\* on the values of free and dirty it uses, where a caller is privileged
\* by the reserved uid, by membership of the reserved gid, by the
\* capability or by the use-root-reserve flag.
C6_LadderAnyGid ==
    [][\A t \in Threads :
          (th[t].pc = "c_check" /\ th'[t] # th[t])
             => ((th'[t].pc = "c_add")
                    <=> LadderAllowsAnyGid(UsedFree(t), UsedDirty(t), th[t].n,
                                           th[t].flags, th[t].cred))]_vars

\* C6 amended: the capacity check allows exactly what the decision ladder
\* allows on the values of free and dirty it uses, where membership of
\* the reserved gid makes a caller privileged only when the reserved gid
\* is not the root group; a claim it denies returns NoSpace; an ordinary
\* caller is denied whenever want + dirty + root reserve + reserved
\* clusters exceeds free.
C6_DecisionLadder ==
    [][\A t \in Threads :
          (th[t].pc = "c_check" /\ th'[t] # th[t])
             => /\ (th'[t].pc = "c_add")
                      <=> LadderAllows(UsedFree(t), UsedDirty(t), th[t].n,
                                       th[t].flags, th[t].cred)
                /\ (th'[t].pc # "c_add"
                      => Returns(t) /\ th'[t].op = "claim" /\ th'[t].ret = "ENOSPC")
                /\ ((th[t].flags = {} /\ th[t].cred = NoCred
                        /\ s64_lt(UsedFree(t),
                                  s64_add(S64(th[t].n + RootReserved
                                                 + acct.s_resv_clusters),
                                          UsedDirty(t))))
                      => th'[t].pc # "c_add")]_vars

\* C6 witness: a member of the reserved gid, which is not the root group,
\* has been allowed on the second rung, the root reserve waived, where an
\* ordinary caller is denied.
C6_Witness ==
    \E t \in Threads :
        /\ th[t].pc = "c_add"
        /\ th[t].flags = {}
        /\ th[t].cred = [NoCred EXCEPT !.in_group_resgid = TRUE]
        /\ ~acct.s_resgid_is_root
        /\ s64_lt(th[t].free,
                  s64_add(S64(th[t].n + RootReserved + acct.s_resv_clusters),
                          th[t].dirty))
        /\ acct.s_resv_clusters > 0

\* C7: a call of claim leaves free and the reserves alone; it adds exactly
\* want to dirty when it returns success and leaves dirty alone when it
\* returns NoSpace.
C7_AllOrNothing ==
    [][\A t \in Threads :
          ClaimStepOf(t)
             => /\ fcc' = fcc
                /\ acct' = acct
                /\ IF Returns(t) /\ th'[t].ret = "OK"
                   THEN percpu_counter_sum(dcc') = s64_add(percpu_counter_sum(dcc), S64(th[t].n))
                   ELSE dcc' = dcc]_vars

\* C7 witness: one claim has returned success, another NoSpace.
C7_Witness ==
    \E t \in Threads, u \in Threads :
        /\ th[t].pc = "idle" /\ th[t].op = "claim" /\ th[t].ret = "OK"
        /\ th[u].pc = "idle" /\ th[u].op = "claim" /\ th[u].ret = "ENOSPC"
        /\ s64_lt(S64(0), percpu_counter_sum(dcc))

(***************************************************************************)
(* Properties of the retry protocol                                        *)
(***************************************************************************)
\* Thread t returns from a call of should_retry_after_no_space in this step.
RetryReturns(t) == Returns(t) /\ th'[t].op = "retry"

\* Thread t finishes the tests of a call in this step.
RetryDecides(t) == th[t].pc = "r_check" /\ th'[t] # th[t]

\* The call of thread t is refused: no capacity for one cluster without
\* flags on the values of free and dirty the call uses, or the counter of
\* attempts it was called with exceeds 3, or no journal.
RetryRefused(t) ==
    \/ ~LadderAllows(UsedFree(t), UsedDirty(t), 1, {}, th[t].cred)
    \/ th[t].retries > 3
    \/ ~acct.s_journal

\* C13: in a sequence of calls that share a counter of attempts starting
\* at 0, with capacity for one cluster and an active journal at every call,
\* at most 3 calls return true, and the 4th call and every later one
\* return false.
C13_RetryCeiling ==
    [][\A t \in Threads :
          (RetryDecides(t) /\ hist'.seq[t].clean)
             => /\ hist'.seq[t].trues <= 3
                /\ (hist'.seq[t].calls >= 4
                       => RetryReturns(t) /\ th'[t].ret = "0")]_vars

\* C14: a call returns false and forces no commit when there is no
\* capacity for one cluster, or its counter of attempts exceeds 3, or no
\* journal is active; it returns true in every other case, at once or
\* after the commit it waits for.
C14_RetryDecision ==
    [][\A t \in Threads :
          /\ RetryDecides(t)
                => /\ (RetryRefused(t)
                         => /\ RetryReturns(t) /\ th'[t].ret = "0"
                            /\ hist'.commits = hist.commits
                            /\ acct' = acct)
                   /\ (~RetryRefused(t)
                         => \/ RetryReturns(t) /\ th'[t].ret = "1"
                            \/ th'[t].pc = "retry_commit_wait")
          /\ (th[t].pc = "retry_commit_wait" /\ th'[t] # th[t])
                => RetryReturns(t) /\ th'[t].ret = "1"]_vars

\* C14 witness: a call has returned false only because its counter of
\* attempts exceeded 3: every call of the sequence had capacity and a
\* journal.
C14_Witness ==
    \E t \in Threads :
        /\ th[t].op = "retry" /\ th[t].ret = "0" /\ th[t].pc = "idle"
        /\ hist.seq[t].clean
        /\ th[t].retries > 4

\* C15: every call of ext4_should_retry_alloc that returns true has forced
\* a commit (jbd2_journal_force_commit_nested was called) before it returned.
C15_TrueForcesCommit ==
    [][\A t \in Threads :
          (RetryReturns(t) /\ th'[t].ret = "1")
             => hist'.commits = hist.commits + 1]_vars

(***************************************************************************)
(* Properties of the layout calculator                                     *)
(***************************************************************************)
\* The groups whose group info has been made at mount
AddedGroups == {g \in Groups : \E t \in Threads : th[t].pc = "mount" /\ g < th[t].group}

\* C16: for every group, base metadata clusters <= overhead clusters <=
\* clusters in the group, so that the free count of a pristine group is
\* clusters minus overhead without wrapping below zero.
C16_OverheadBounded ==
    \A g \in AddedGroups :
        /\ ext4_num_base_meta_clusters(g) <= ext4_num_overhead_clusters(g, gdp[g])
        /\ ext4_num_overhead_clusters(g, gdp[g]) <= num_clusters_in_group(g)
        /\ (gdp[g].bg_flags_block_uninit
               => /\ s64_le(S64(0), grp[g].bb_free)
                  /\ s64_le(grp[g].bb_free, S64(num_clusters_in_group(g))))

\* C17: the overhead clusters of a group are as many as the clusters in
\* the union of the base metadata run with the clusters of the block
\* bitmap, the inode bitmap and the inode table blocks that lie in the
\* group: no cluster is counted twice.
C17_NoDoubleCount ==
    \A g \in AddedGroups :
        /\ ext4_num_overhead_clusters(g, gdp[g])
              = Cardinality(GroupMetaClusters(g, gdp[g]))
        /\ (gdp[g].bg_flags_block_uninit /\ BaseFits(g)
               => grp[g].bb_free = S64(Cardinality(ClearBits(g, PristineBitmap(g, gdp[g])))))

\* g is b, b * b, b * b * b, ...
IsPowerOf(g, b) == \E k \in 1 .. 6 : g = b ^ k

\* The groups that are to hold a superblock copy
SuperExpected(g) ==
    IF g = 0 THEN TRUE
    ELSE IF sb.feature_sparse_super2
    THEN g \in {sb.s_backup_bgs[1], sb.s_backup_bgs[2]}
    ELSE IF ~sb.feature_sparse_super THEN TRUE
    ELSE g = 1 \/ IsPowerOf(g, 3) \/ IsPowerOf(g, 5) \/ IsPowerOf(g, 7)

\* C18: a group holds a superblock copy when it is group 0; with
\* sparse_super2, when it is one of the two configured backup groups;
\* otherwise when sparse_super is disabled; otherwise when it is group 1
\* or a power of 3, 5 or 7.  With sparse_super alone the holders among 64
\* groups are 0, 1, 3, 5, 7, 9, 25, 27 and 49.
C18_SuperblockCopies ==
    /\ \A g \in Groups : (ext4_bg_has_super(g) = 1) <=> SuperExpected(g)
    /\ \A g \in Groups : ext4_bg_has_super(g) \in {0, 1}
    /\ hist.supers = {g \in AddedGroups : SuperExpected(g)}
    /\ (/\ sb.s_groups_count = 64
        /\ sb.feature_sparse_super /\ ~sb.feature_sparse_super2)
          => {g \in Groups : ext4_bg_has_super(g) = 1}
                = {0, 1, 3, 5, 7, 9, 25, 27, 49}

\* C18 witness: the mount of a sparse_super filesystem of 64 groups has
\* gone through all the groups and found these nine holders.
C18_Witness ==
    /\ sb.s_groups_count = 64
    /\ sb.feature_sparse_super /\ ~sb.feature_sparse_super2
    /\ AddedGroups = Groups
    /\ hist.supers = {0, 1, 3, 5, 7, 9, 25, 27, 49}

\* Group g is governed by meta_bg: the feature is active and the group's
\* meta-group is not below the first-meta-bg threshold.
MetaBgGoverns(g) ==
    sb.feature_meta_bg /\ (g \div sb.s_desc_per_block) >= sb.s_first_meta_bg

\* Group g is the first, the second or the last group of its meta-group.
HoldsMetaGroupCopy(g) ==
    (g % sb.s_desc_per_block) \in {0, 1, sb.s_desc_per_block - 1}

\* C19 as stated: a group without a superblock copy has no descriptor
\* blocks, in every configuration (looked at once its group info is made).
C19_NoSuperNoDescriptors ==
    \A g \in AddedGroups : ext4_bg_has_super(g) = 0 => ext4_bg_num_gdb(g) = 0

\* C19 amended: a group without a superblock copy has no descriptor blocks
\* unless meta_bg governs it; a group that meta_bg governs has one
\* descriptor block when it is the first, second or last group of its
\* meta-group and none otherwise, with or without a superblock copy.
C19_NoSuperOutsideMetaBg ==
    \A g \in Groups :
        /\ (ext4_bg_has_super(g) = 0 /\ ~MetaBgGoverns(g)) => ext4_bg_num_gdb(g) = 0
        /\ MetaBgGoverns(g)
              => ext4_bg_num_gdb(g) = IF HoldsMetaGroupCopy(g) THEN 1 ELSE 0

\* C19 witness: the mount has made the group info of the last group of a
\* meta-group, which has no superblock copy and one descriptor block.
C19_Witness ==
    \E g \in AddedGroups :
        /\ MetaBgGoverns(g)
        /\ g % sb.s_desc_per_block = sb.s_desc_per_block - 1
        /\ ext4_bg_has_super(g) = 0
        /\ ext4_bg_num_gdb(g) = 1
        /\ ext4_num_base_meta_clusters(g) = 1

\* C20 as stated: a group that holds a superblock copy and is not governed
\* by meta_bg has as many descriptor blocks as the whole filesystem (looked
\* at once its group info is made).
C20_TotalDescriptors ==
    \A g \in AddedGroups :
        (ext4_bg_has_super(g) = 1 /\ ~MetaBgGoverns(g))
           => ext4_bg_num_gdb(g) = sb.s_gdb_count

\* C20 amended: such a group has as many descriptor blocks as the whole
\* filesystem when meta_bg is inactive, and as many as the first-meta-bg
\* threshold when meta_bg is active.
C20_OldLayoutDescriptors ==
    \A g \in Groups :
        (ext4_bg_has_super(g) = 1 /\ ~MetaBgGoverns(g))
           => ext4_bg_num_gdb(g) = IF sb.feature_meta_bg THEN sb.s_first_meta_bg
                                   ELSE sb.s_gdb_count

\* C20 witness: the mount has made the group info of a group with a
\* superblock copy below the threshold of a meta_bg filesystem, with
\* fewer descriptor blocks than the filesystem has.
C20_Witness ==
    \E g \in AddedGroups :
        /\ sb.feature_meta_bg
        /\ ~MetaBgGoverns(g)
        /\ g > 0
        /\ ext4_bg_has_super(g) = 1
        /\ ext4_bg_num_gdb(g) = sb.s_first_meta_bg
        /\ sb.s_first_meta_bg < sb.s_gdb_count

\* The blocks of base metadata of group g outside meta_bg: the superblock
\* copy, the descriptor blocks and the reserved descriptor blocks of a
\* group with a superblock copy, nothing in the other groups.
OldLayoutBaseBlocks(g) ==
    IF ext4_bg_has_super(g) = 1
    THEN 1 + ext4_bg_num_gdb(g) + sb.s_reserved_gdt_blocks
    ELSE 0

\* C21 as stated: the base metadata clusters of a group are the old-layout
\* blocks when meta_bg does not govern the group and the descriptor blocks
\* alone when it does, rounded up to clusters.
C21_BaseNoSuperUnderMetaBg ==
    \A g \in AddedGroups :
        ext4_num_base_meta_clusters(g)
           = EXT4_NUM_B2C(IF MetaBgGoverns(g) THEN ext4_bg_num_gdb(g)
                          ELSE OldLayoutBaseBlocks(g))

\* C21 amended: when meta_bg governs the group, the base metadata is the
\* superblock copy, if the group holds one, plus the descriptor blocks,
\* with nothing for the reserved descriptor blocks.
C21_BaseWithSuperUnderMetaBg ==
    \A g \in Groups :
        ext4_num_base_meta_clusters(g)
           = EXT4_NUM_B2C(IF MetaBgGoverns(g)
                          THEN ext4_bg_has_super(g) + ext4_bg_num_gdb(g)
                          ELSE OldLayoutBaseBlocks(g))

\* C21 witness: the mount has made the group info of a group that meta_bg
\* governs and that holds a superblock copy and a descriptor block, on a
\* filesystem with a reserved descriptor block.
C21_Witness ==
    \E g \in AddedGroups :
        /\ MetaBgGoverns(g)
        /\ g > 0
        /\ ext4_bg_has_super(g) = 1
        /\ ext4_bg_num_gdb(g) = 1
        /\ sb.s_reserved_gdt_blocks > 0
        /\ ext4_num_base_meta_clusters(g) = EXT4_NUM_B2C(2)

\* Block b lies among the blocks_per_group blocks that start at the first
\* block of group g.
InGroupRange(b, g) ==
    /\ ext4_group_first_block_no(g) <= b
    /\ b < ext4_group_first_block_no(g) + sb.s_blocks_per_group

\* Cluster c of group g holds block b.
InCluster(b, g, c) ==
    /\ ext4_group_first_block_no(g) + c * s_cluster_ratio <= b
    /\ b < ext4_group_first_block_no(g) + (c + 1) * s_cluster_ratio

\* C22: a located block lies in the group and in the cluster that the
\* locator returns; the group number is the same whether computed by the
\* shift or by the division, and the block is in group g exactly when g is
\* that number.
C22_LocatorAgrees ==
    hist.located # NoLocated =>
        LET l == hist.located
            rel == l.block - sb.s_first_data_block
        IN  /\ l.group = rel \div sb.s_blocks_per_group
            /\ l.offset = (rel % sb.s_blocks_per_group) \div Pow2(sb.s_cluster_bits)
            /\ InGroupRange(l.block, l.group)
            /\ InCluster(l.block, l.group, l.offset)
            /\ l.number = l.group
            /\ l.in_group = {l.group}

\* C22 witness: on a filesystem with the standard group size that starts
\* at block 1 and has clusters of two blocks, a block of the last group,
\* not in its first cluster, has been located by the shift.
C22_Witness ==
    /\ hist.located # NoLocated
    /\ sb.opt_std_group_size
    /\ sb.s_first_data_block = 1
    /\ sb.s_cluster_bits = 1
    /\ hist.located.number = 2
    /\ hist.located.offset > 0
    /\ hist.located.in_group = {2}

\* C23: when the last granted claim is released with no change of the
\* dirty counter since the claim, the exact dirty count is again what it
\* was before the claim.
C23_ClaimReleaseRestores ==
    [][\A cpu \in Threads :
          release(cpu) =>
              percpu_counter_sum(dcc') = hist.granted.before]_vars

\* C23 witness: a claim of two clusters, made when a cluster was dirty
\* already, has been released on the other cpu.
C23_Witness ==
    /\ hist.granted.released
    /\ hist.granted.n = 2
    /\ s64_lt(S64(0), hist.granted.before)
    /\ dcc.counters[hist.granted.thread] = 0
    /\ percpu_counter_sum(dcc) = hist.granted.before
    /\ \E cpu \in Threads : cpu # hist.granted.thread /\ dcc.counters[cpu] # 0

\* The sum of the free counts of the descriptors of the groups outside S
FreeOutside(S) ==
    SumOver([g \in Groups |-> IF g \in S THEN 0 ELSE gdp[g].bg_free_blocks_count],
            Groups)

\* C24: a step of the count changes no descriptor, group flag, buffer or
\* counter; a count during which no group was marked corrupt returns the
\* sum of the descriptor free counts of the groups not marked corrupt.
C24_CountSkipsCorrupt ==
    [][\A t \in Threads :
          CountStep(t) =>
              /\ UNCHANGED <<geomVars, bitmapVars, cntVars, acct>>
              /\ (CountReturn(t) /\ hist'.counted.entry = hist'.counted.exit) =>
                     hist'.counted.total = FreeOutside(CorruptGroups)]_vars

\* C24 witness: a count has returned while a group with free clusters in
\* its descriptor was marked corrupt and another one was not.
C24_Witness ==
    /\ hist.counted.total > 0
    /\ hist.counted.entry = hist.counted.exit
    /\ \E g \in hist.counted.entry : gdp[g].bg_free_blocks_count > 0
    /\ hist.counted.entry # Groups

\* Thread t calls acquire on a group without a descriptor: the group
\* number is not below the group count, or its descriptor block is not
\* loaded.
AcquireNoDesc(t) ==
    /\ th[t].pc = "idle"
    /\ hist'.calls = hist.calls + 1
    /\ th'[t] # th[t]
    /\ ~ext4_get_group_desc(th'[t].group)

\* Thread t calls wait on a group without a descriptor, with the buffer it
\* holds.
WaitNoDesc(t) ==
    /\ th[t].pc = "have_bh"
    /\ th'[t] # th[t]
    /\ th'[t].wait_group # -1
    /\ ~ext4_get_group_desc(th'[t].wait_group)

\* What the claim lists is kept by the step of thread t: no group is
\* marked corrupt, no counter, buffer or lock changes, thread t holds no
\* lock, no other thread is touched
GeometryCallIsLocal(t) ==
    /\ UNCHANGED <<geomVars, bitmapVars, cntVars>>
    /\ \A g \in Groups : group_lock'[g] # t /\ bh'[g].lock # t
    /\ \A u \in Threads \ {t} : th'[u] = th[u]

\* C25: acquire and wait on a group without a descriptor return an error
\* for that call only: no group is marked corrupt, no counter, buffer or
\* lock changes, no lock is left held.
C25_GeometryErrorAlways ==
    [][\A t \in Threads :
          (AcquireNoDesc(t) \/ WaitNoDesc(t))
             => /\ Returns(t)
                /\ th'[t].ret = "EFSCORRUPTED"
                /\ GeometryCallIsLocal(t)]_vars

\* C25 amended: acquire on a group without a descriptor returns an error;
\* wait on such a group returns an error when the buffer it is given is
\* new (a read was submitted for it) and returns success, without looking
\* at the group, when it is not.  Either way no group is marked corrupt,
\* no counter, buffer or lock changes, no lock is left held, and of the
\* calling thread nothing changes but the recorded call and its result,
\* which the next call overwrites; the one mark an error leaves is
\* EXT4_ERROR_FS, set by ext4_error, which no acquire or wait reads.
C25_GeometryErrorIsLocal ==
    [][\A t \in Threads :
          /\ AcquireNoDesc(t)
                => /\ GeometryCallIsLocal(t)
                   /\ acct' = ext4_error(acct)
                   /\ th'[t] = [th[t] EXCEPT !.op = "nowait", !.ret = "EFSCORRUPTED",
                                             !.done = ~@, !.group = th'[t].group,
                                             !.entry_corrupt = FALSE]
          /\ WaitNoDesc(t)
                => /\ GeometryCallIsLocal(t)
                   /\ acct' = IF bh[th[t].group].new THEN ext4_error(acct) ELSE acct
                   /\ th'[t] = [th[t] EXCEPT
                                   !.pc = "waited", !.op = "wait",
                                   !.ret = IF bh[th[t].group].new
                                           THEN "EFSCORRUPTED" ELSE "OK",
                                   !.done = ~@, !.wait_group = th'[t].wait_group,
                                   !.entry_corrupt =
                                       EXT4_MB_GRP_BBITMAP_CORRUPT(th[t].group)]]_vars

\* C25 witness: the second descriptor block is not loaded; a thread whose
\* acquire failed for want of a descriptor has since acquired, waited for
\* and been given the verified bitmap of group 0, while another thread's
\* wait on a group without a descriptor has returned the error.
C25_Witness ==
    /\ 1 \notin sb.s_group_desc
    /\ acct.error_fs
    /\ \E t \in hist.geom_errors :
          /\ th[t].pc = "waited"
          /\ th[t].op = "wait"
          /\ th[t].ret = "OK"
          /\ th[t].wait_group = th[t].group
          /\ ext4_get_group_desc(th[t].group)
          /\ bh[th[t].group].verified
          /\ ~EXT4_MB_GRP_BBITMAP_CORRUPT(th[t].group)
    /\ \E u \in Threads :
          /\ th[u].pc = "waited"
          /\ th[u].op = "wait"
          /\ th[u].ret = "EFSCORRUPTED"
          /\ ~ext4_get_group_desc(th[u].wait_group)

\* Thread t's wait, the second half of ext4_read_block_bitmap, returns 0.
WaitReturnsBuffer(t) ==
    /\ th'[t].done # th[t].done
    /\ th'[t].op = "wait"
    /\ th'[t].ret = "OK"

\* C26: whenever acquire followed by wait returns the buffer, the buffer's
\* verified flag is set at the return.
C26_ReturnedVerified ==
    [][\A t \in Threads :
          WaitReturnsBuffer(t) => bh'[th'[t].group].verified]_vars

\* Thread t has found the bitmap of its group bad and has not yet returned.
ValidationFailed(t) == th[t].pc \in {"v_fail", "v_fail_sub", "v_fail_set"}

\* C27: the checks, and the setting of the corrupt flag that follows their
\* failure, are one critical section of the group lock: while a validation
\* that failed has not set the corrupt flag, no other thread holds the lock
\* of that group.
C27_SeenByOther ==
    \A t \in Threads, u \in Threads :
        (ValidationFailed(t) /\ ~EXT4_MB_GRP_BBITMAP_CORRUPT(th[t].group)) =>
            (u = t \/ group_lock[th[t].group] # u)

\* The holder of the lock that thread t is waiting for, NoThread when t is
\* not waiting: lock_buffer (line 525) and wait_on_buffer (line 614) wait
\* for the buffer lock, ext4_lock_group (lines 537 and 436) for the group
\* lock.
WaitsFor(t) ==
    IF th[t].pc \in {"lock_buffer", "w_wait"} THEN bh[th[t].group].lock
    ELSE IF th[t].pc \in {"lock_group", "v_lock"} THEN group_lock[th[t].group]
    ELSE NoThread

HoldsGroupLock(t) == \E g \in Groups : group_lock[g] = t
HoldsBufferLock(t) == \E g \in Groups : bh[g].lock = t

\* C28: a thread that asks for a buffer lock holds no group lock; a thread
\* that asks for a group lock holds the lock of that group's buffer (in
\* ext4_read_block_bitmap_nowait) or no buffer lock (in
\* ext4_validate_block_bitmap); no thread waits for a lock it holds, no
\* two threads wait for each other, and a buffer lock held for a read has
\* its read in flight.
C28_LockOrder ==
    /\ \A t \in Threads :
          /\ th[t].pc \in {"lock_buffer", "w_wait"} =>
                ~HoldsGroupLock(t) /\ ~HoldsBufferLock(t)
          /\ th[t].pc = "lock_group" =>
                bh[th[t].group].lock = t /\ ~HoldsGroupLock(t)
          /\ th[t].pc = "v_lock" => ~HoldsBufferLock(t) /\ ~HoldsGroupLock(t)
          /\ HoldsGroupLock(t) =>
                th[t].pc \in {"init", "init_sub", "init_set", "init_inodes",
                              "init_inode_set", "init_bitmap_uptodate",
                              "init_buffer_uptodate", "init_unlock_group",
                              "read", "v_check"}
          /\ WaitsFor(t) # t
          /\ \A u \in Threads : ~(WaitsFor(t) = u /\ WaitsFor(u) = t)
    /\ \A g \in Groups : bh[g].lock = IoOwner => io[g]

\* C28 witness: a thread holds the lock of a buffer and the lock of its
\* group, in this order, while the other thread waits for the buffer lock.
C28_Witness ==
    \E t \in Threads, u \in Threads :
        /\ th[t].pc \in {"init", "read"}
        /\ bh[th[t].group].lock = t
        /\ group_lock[th[t].group] = t
        /\ th[u].pc = "lock_buffer"
        /\ th[u].group = th[t].group
        /\ WaitsFor(u) = t

\* The margin that the approximate counter values, read when the claim
\* was entered, leave above want, the reserves and the dirty clusters
ApproxMargin(t) ==
    s64_sub(th[t].free,
            s64_add(S64(th[t].n + RootReserved + acct.s_resv_clusters), th[t].dirty))

\* C29: with a margin below the watermark the capacity check answers what
\* the decision ladder answers on the exact sums of the counters; with a
\* margin of at least the watermark it keeps the approximate values and
\* allows.
C29_ExactNearLimit ==
    [][\A t \in Threads :
          (th[t].pc = "c_check" /\ th'[t] # th[t]) =>
              IF s64_lt(ApproxMargin(t), S64(EXT4_FREECLUSTERS_WATERMARK))
              THEN (th'[t].pc = "c_add")
                      <=> LadderAllows(percpu_counter_sum(fcc), percpu_counter_sum(dcc),
                                       th[t].n, th[t].flags, th[t].cred)
              ELSE /\ th'[t].pc = "c_add"
                   /\ th'[t].free = th[t].free
                   /\ th'[t].dirty = th[t].dirty]_vars

\* C29 witness: a claim has been allowed on the exact sums where the
\* approximate values, being lower, would have denied it.
C29_Witness ==
    \E t \in Threads :
        /\ th[t].pc = "c_add"
        /\ th[t].free = percpu_counter_sum(fcc)
        /\ s64_lt(percpu_counter_read_positive(fcc), th[t].free)
        /\ ~LadderAllows(percpu_counter_read_positive(fcc),
                         percpu_counter_read_positive(dcc),
                         th[t].n, th[t].flags, th[t].cred)

\* A claim has been allowed on the approximate values, far from the limit.
AllowedFarFromLimit ==
    \E t \in Threads :
        /\ th[t].pc = "c_add"
        /\ s64_le(S64(EXT4_FREECLUSTERS_WATERMARK), ApproxMargin(t))
        /\ th[t].free # percpu_counter_sum(fcc)

\* The synthesis of the bitmap of group g fails: the group was never
\* written, and its descriptor fails its checksum or its base metadata
\* does not fit the bitmap block.
SynthesisFails(g) ==
    /\ gdp[g].bg_flags_block_uninit
    /\ ~DescCsumGood(g) \/ ~BaseFits(g)

\* Thread t is given the buffer of its group in this step, by acquire or
\* by wait.
GivenBuffer(t) ==
    /\ Returns(t)
    /\ th'[t].group \in Groups
    /\ \/ th'[t].op = "nowait" /\ th'[t].ret = "bh"
       \/ th'[t].op = "wait" /\ th'[t].ret = "OK"

\* C30: no acquire and no wait gives a caller the buffer of a group whose
\* synthesis fails.
C30_FailedSynthesisNotReturned ==
    [][\A t \in Threads :
          GivenBuffer(t) => ~SynthesisFails(th'[t].group)]_vars

\* The same for the groups whose descriptor fails its checksum only
FailedChecksumNotReturned ==
    [][\A t \in Threads :
          GivenBuffer(t) => DescCsumGood(th'[t].group)]_vars

\* The same for the filesystems without flex_bg only
FailedSynthesisNotReturnedNoFlex ==
    [][\A t \in Threads :
          (GivenBuffer(t) /\ ~sb.feature_flex_bg) => ~SynthesisFails(th'[t].group)]_vars

\* The same for the filesystems with metadata_csum only
FailedSynthesisNotReturnedCsum ==
    [][\A t \in Threads :
          (GivenBuffer(t) /\ sb.feature_metadata_csum) => ~SynthesisFails(th'[t].group)]_vars

\* The clusters of group g, from the blocks it has
ClustersOf(g) == CeilDiv(GroupBlocks(g), s_cluster_ratio)

\* What C31 says the synthesized bitmap of group g holds: the base run,
\* the clusters of the block bitmap, the inode bitmap and the inode table
\* blocks (with flex_bg, of those inside the group only), and the bits
\* from the group's last cluster to the end of the bitmap block.
SynthesizedContent(g, d) ==
    LET start == ext4_group_first_block_no(g)
        blks  == {b \in {ext4_block_bitmap(d), ext4_inode_bitmap(d)} \cup ItbBlocks(d) :
                     ~sb.feature_flex_bg \/ InGroupRange(b, g)}
    IN  (0 .. (ext4_num_base_meta_clusters(g) - 1))
           \cup {(b - start) \div s_cluster_ratio : b \in blks}
           \cup (ClustersOf(g) .. (sb.s_blocksize * 8 - 1))

\* Thread t's synthesis of the bitmap of its group succeeds in this step.
SynthesisSucceeds(t) ==
    /\ th[t].pc = "init"
    /\ th'[t].pc = "init_bitmap_uptodate"
    /\ th'[t].err = "OK"

\* C31: a successful synthesis leaves in the buffer exactly the base run,
\* the clusters of the group's own bitmap and inode table blocks and the
\* tail after the group's last cluster, and no bit outside the bitmap
\* block.
C31_SynthesizedContent ==
    [][\A t \in Threads :
          SynthesisSucceeds(t) =>
              /\ bh'[th[t].group].b_data = SynthesizedContent(th[t].group, gdp[th[t].group])
              /\ bh'[th[t].group].b_data \subseteq 0 .. (sb.s_blocksize * 8 - 1)]_vars

\* C31 witness: the bitmap of the short last group has been synthesized
\* with flex_bg, clusters of two blocks and its bitmaps and inode table in
\* another group: only the tail is set.
C31_Witness ==
    \E g \in Groups :
        /\ g = sb.s_groups_count - 1
        /\ sb.feature_flex_bg
        /\ sb.s_cluster_bits = 1
        /\ gdp[g].bg_flags_block_uninit
        /\ hist.inits[g] = 1
        /\ ~InGroupRange(ext4_block_bitmap(gdp[g]), g)
        /\ bh[g].b_data = ClustersOf(g) .. (sb.s_blocksize * 8 - 1)
        /\ ClustersOf(g) < sb.s_clusters_per_group

\* The bitmap of a group whose base run reaches past its last cluster has
\* been synthesized.
SynthesizedLongBase ==
    \E g \in Groups :
        /\ gdp[g].bg_flags_block_uninit
        /\ hist.inits[g] = 1
        /\ bh[g].bitmap_uptodate
        /\ BaseFits(g)
        /\ sb.s_reserved_gdt_blocks > 0
        /\ ext4_num_base_meta_clusters(g) > 2

\* Thread t holds a reference to the buffer of group g: it is inside a
\* call on g, or it has been given the buffer and has not put it yet.
HoldsReference(t, g) ==
    /\ th[t].group = g
    /\ th[t].pc \notin {"idle", "mount", "count", "c_check", "c_add"}

\* Every reference to a buffer belongs to a thread that holds one or to a
\* read in flight.
ReferencesBalanced ==
    \A g \in Groups :
        bh[g].b_count = Cardinality({t \in Threads : HoldsReference(t, g)})
                           + (IF io[g] THEN 1 ELSE 0)

\* Thread t returns from ext4_read_block_bitmap_nowait in this step.
NowaitReturns(t) == Returns(t) /\ th'[t].op = "nowait"

\* C32: a thread that returns from acquire holds no group lock and no
\* buffer lock; a buffer lock it held is released, or handed to the read
\* it has submitted, and then the buffer is returned; an acquire that
\* returns an error leaves the thread without a reference to the buffer.
C32_AcquireBalanced ==
    /\ []ReferencesBalanced
    /\ [][\A t \in Threads :
            NowaitReturns(t) =>
                /\ \A g \in Groups : group_lock'[g] # t /\ bh'[g].lock # t
                /\ \A g \in Groups :
                      (bh[g].lock = t /\ bh'[g].lock # NoThread) =>
                          /\ bh'[g].lock = IoOwner
                          /\ io'[g] /\ ~io[g]
                          /\ th'[t].ret = "bh"
                /\ th'[t].ret # "bh" =>
                      /\ th'[t].pc = "idle"
                      /\ \A g \in Groups : ~HoldsReference(t, g)']_vars

\* C32 witness: an acquire that held both locks of a never-written group
\* with a bad descriptor checksum has returned its error; nothing is
\* locked and the buffer has no reference left.
C32_Witness ==
    \E t \in Threads :
        /\ th[t].pc = "idle"
        /\ th[t].op = "nowait"
        /\ th[t].ret = "EFSBADCRC"
        /\ th[t].group \in Groups
        /\ gdp[th[t].group].bg_flags_block_uninit
        /\ bh[th[t].group].bitmap_uptodate
        /\ bh[th[t].group].b_count = 0
        /\ bh[th[t].group].lock = NoThread
        /\ group_lock[th[t].group] = NoThread

====
